---- MODULE Spec2Model ----
(***************************************************************************)
(* Grid A* pathfinder and enemy state machine of the raycasting engine     *)
(* (src/Python/doom.py).                                                   *)
(*                                                                         *)
(* Numbers.  World coordinates are integers (the source holds floats).     *)
(* Path costs are held in thousandths: a cardinal step costs 1000 and a    *)
(* diagonal step 1414 (1 and 1.414 in the source), and f = g + 1000*h.     *)
(* On the grids of this model (up to GridW+1 by GridH+1 cells) every       *)
(* comparison of f and g values gives the same answer in thousandths as    *)
(* in double precision.                                                    *)
(* An enemy's step is truncated to whole units, its speed is held in       *)
(* hundredths and its attack range in tenths of a tile; a line of sight    *)
(* whose ray crosses a cell corner exactly has both outcomes, as rounding  *)
(* decides it in the source.  The frame counts (re-plan period, state      *)
(* durations, cooldowns) are scaled down and listed with the bounds.       *)
(***************************************************************************)
EXTENDS Integers, Sequences, FiniteSets, TLC

\* ------------------------------------------------------------------ bounds
\* The source's MAP is 32 by 32; the model searches every enclosed grid of
\* GridW by GridH cells with at most MaxWalls interior wall cells.
GridW == 5
GridH == 5
MaxWalls == 2
\* The room line-of-sight is tried in: SightW by SightH cells, wide enough
\* for a ray that crosses more cells than its march is given steps.
SightW == 6
SightH == 6
\* A wider room for the searches that meet a cell twice: WideW by WideH
\* cells, with at most MaxWalls interior wall cells.
WideW == 6
WideH == 5
\* A search budget small enough to run out on these grids.
SmallBudget == 3
\* The game is followed for this many steps (player moves, enemy updates,
\* hits) from each starting position.
MaxSteps == 8
\* Durations, in updates.  The source counts 10, 300 and 180 updates and
\* cools attacks down for 40, 80 and 90; the model keeps their roles and
\* their order with shorter spans.
PATH_UPDATE_FREQUENCY == 3
ALERT_DURATION == 4
SEARCH_DURATION == 2
SCOUT_ATTACK_COOLDOWN == 2
TANK_ATTACK_COOLDOWN == 3
RANGED_ATTACK_COOLDOWN == 4
\* The alert radius, in tiles.  The source's is 4 (line 105), wider than the
\* rooms explored here; the model's leaves room for an ally out of reach.
COORDINATION_RANGE == 2
\* The longest path an enemy stores.  The source's is 100 waypoints (line
\* 79), more than any route of these rooms; the model's is short enough for
\* the pathfinder to return more.
MAX_PATH_LENGTH == 3

\* The model's screen, in pixels (800 by 600 in the source, lines 50-51).
SCREEN_WIDTH == 16
SCREEN_HEIGHT == 12

\* The room the whole game is played in: GameW by GameH cells.
GameW == 7
GameH == 7
\* The whole game is followed for this many frames.
MaxFrames == 6
\* Frames between spawns and frames a shot keeps the gun firing (100 and 20
\* in the source), and the limits on enemies alive and on the members of a
\* cluster (8 and 3 in the source).
ENEMY_SPAWN_COOLDOWN == 2
WEAPON_FIRE_COOLDOWN == 3
MAX_ENEMIES == 2
MAX_CLUSTER_SIZE == 1

\* --------------------------------------------------------------- constants
TILE_SIZE == 64
\* Lines 52, 54, 66, 109 and 121.
FOV == 60
MAX_DEPTH == 20
WEAPON_MAX_AMMO == 12
CLUSTER_RADIUS == 2
PLAYER_MAX_HEALTH == 100
DEFAULT_MAX_ITERATIONS == 1000
\* 1 and 1.414, in thousandths.
CARDINAL_COST == 1000
DIAGONAL_COST == 1414

VARIABLES
  MAP,             \* the occupancy grid, MAP[y][x], 0 = empty
  start_x, start_y, goal_x, goal_y, max_iterations,   \* arguments of the call
  astar,           \* the running call of a_star_pathfinding
  player,          \* the Player: [x, y]
  enemies,         \* EnemyManager.enemies: the live enemies, in list order
  manager,         \* EnemyManager: patrol_clusters, spawn_cooldown, spawn_attempts
  gun,             \* the Gun: firing, cooldown, ammo, reloading
  frame,           \* main's position in the frame, and cast_rays' z_buffer and sprites
  last,            \* what the step just taken did (an observation, not program state)
  steps            \* how many steps of the game have been taken

vars == <<MAP, start_x, start_y, goal_x, goal_y, max_iterations, astar,
          player, enemies, manager, gun, frame, last, steps>>

\* Lines 173-174: MAP_WIDTH = len(MAP[0]), MAP_HEIGHT = len(MAP).
MAP_WIDTH == Cardinality(DOMAIN MAP[0])
MAP_HEIGHT == Cardinality(DOMAIN MAP)

\* ------------------------------------------------------------ Python values
\* int(a / b) for b > 0: truncation toward zero.
IntTrunc(a, b) == IF a >= 0 THEN a \div b ELSE -((-a) \div b)

Abs(a) == IF a < 0 THEN -a ELSE a

\* A list subscript lst[i] on a list of n items: negative subscripts count
\* from the end, anything else outside the list raises IndexError.
SubscriptOK(i, n) == -n <= i /\ i < n
Subscript(i, n) == IF i < 0 THEN i + n ELSE i

\* MAP[y][x] as the interpreter evaluates it.
MapOK(M, y, x) == SubscriptOK(y, MAP_HEIGHT) /\ SubscriptOK(x, MAP_WIDTH)
MapAt(M, y, x) == M[Subscript(y, MAP_HEIGHT)][Subscript(x, MAP_WIDTH)]

\* ------------------------------------------------------------------- grids
\* The cells of a grid of w by h cells that are not on its border.
InteriorOf(w, h) == {c \in (0 .. w - 1) \X (0 .. h - 1) :
                       /\ 0 < c[1] /\ c[1] < w - 1
                       /\ 0 < c[2] /\ c[2] < h - 1}

\* The enclosed grid of w by h cells whose interior walls are the cells of
\* `walls`: the border is wall, as in the source's MAP.
Room(w, h, walls) ==
  [y \in 0 .. h - 1 |->
     [x \in 0 .. w - 1 |->
        IF <<x, y>> \in InteriorOf(w, h) /\ <<x, y>> \notin walls THEN 0 ELSE 1]]

\* The enclosed grid of GridW by GridH cells with these interior walls.
GridOf(walls) == Room(GridW, GridH, walls)

Grids == {GridOf(walls) :
            walls \in {w \in SUBSET InteriorOf(GridW, GridH) : Cardinality(w) <= MaxWalls}}

Interior == InteriorOf(MAP_WIDTH, MAP_HEIGHT)

\* ---------------------------------------------------------------- PathNode
\* Nodes live in an arena (astar.nodes); a node's parent is an arena index,
\* 0 for None.
PathNode(x, y, parent) == [x |-> x, y |-> y, parent |-> parent, g |-> 0, h |-> 0, f |-> 0]

\* PathNode.__lt__ on arena indices.
NodeLt(nodes, a, b) == nodes[a].f < nodes[b].f

\* PathNode.__eq__
NodeEq(n, m) == n.x = m.x /\ n.y = m.y

\* ------------------------------------------------------------------- heapq
\* heapq on a sequence of arena indices; heap position p is sequence index p+1.
RECURSIVE _siftdown(_, _, _, _, _)
_siftdown(nodes, heap, startpos, pos, newitem) ==
  IF pos > startpos
  THEN LET parentpos == (pos - 1) \div 2
           parent == heap[parentpos + 1]
       IN IF NodeLt(nodes, newitem, parent)
          THEN _siftdown(nodes, [heap EXCEPT ![pos + 1] = parent], startpos, parentpos, newitem)
          ELSE [heap EXCEPT ![pos + 1] = newitem]
  ELSE [heap EXCEPT ![pos + 1] = newitem]

RECURSIVE _siftup(_, _, _, _, _)
_siftup(nodes, heap, startpos, pos, newitem) ==
  LET endpos == Len(heap)
      childpos == 2 * pos + 1
  IN IF childpos < endpos
     THEN LET rightpos == childpos + 1
              c == IF rightpos < endpos
                      /\ ~NodeLt(nodes, heap[childpos + 1], heap[rightpos + 1])
                   THEN rightpos ELSE childpos
          IN _siftup(nodes, [heap EXCEPT ![pos + 1] = heap[c + 1]], startpos, c, newitem)
     ELSE _siftdown(nodes, [heap EXCEPT ![pos + 1] = newitem], startpos, pos, newitem)

heappush(nodes, heap, item) ==
  LET h == Append(heap, item) IN _siftdown(nodes, h, 0, Len(h) - 1, item)

\* heappop: <<the popped item, the heap that remains>>.
heappop(nodes, heap) ==
  LET lastelt == heap[Len(heap)]
      rest == SubSeq(heap, 1, Len(heap) - 1)
  IN IF rest # <<>>
     THEN <<rest[1], _siftup(nodes, [rest EXCEPT ![1] = lastelt], 0, 0, lastelt)>>
     ELSE <<lastelt, rest>>

\* ------------------------------------------------------ a_star_pathfinding
\* Lines 205-214 without the diagonal moves.
directionsCardinal == << <<0, -1>>, <<1, 0>>, <<0, 1>>, <<-1, 0>> >>

directions == << <<0, -1>>, <<1, -1>>, <<1, 0>>, <<1, 1>>,
                 <<0, 1>>, <<-1, 1>>, <<-1, 0>>, <<-1, -1>> >>

\* Manhattan distance between two cells.
Heuristic(x, y, gx, gy) == Abs(x - gx) + Abs(y - gy)

\* Centre of a tile in world coordinates.
TileCentre(x, y) == <<x * TILE_SIZE + TILE_SIZE \div 2, y * TILE_SIZE + TILE_SIZE \div 2>>

\* The call before its first statement.  pc: "call" (not entered), "loop" (at
\* the while test), "done" (returned astar.path), "raised" (IndexError).
\* expanded and corner_skips record what the search did: the cells added to
\* closed_set, in order, and the diagonal moves refused at the corner test.
NewCall ==
  [pc |-> "call", created |-> FALSE, nodes |-> <<>>, open_list |-> <<>>,
   closed_set |-> {}, iterations |-> 0, goal |-> <<0, 0>>, path |-> <<>>,
   expanded |-> <<>>, corner_skips |-> {}]

\* Lines 197-198: the grid cell of a world position.
GridCell(wx, wy) == <<IntTrunc(wx, TILE_SIZE), IntTrunc(wy, TILE_SIZE)>>

\* Line 201, evaluated left to right: does a subscript raise IndexError?
WallTestRaises(M, start, goal) ==
  \/ ~MapOK(M, start[2], start[1])
  \/ MapAt(M, start[2], start[1]) = 0 /\ ~MapOK(M, goal[2], goal[1])

\* Line 201 with the goal's half of the test left out.
StartInWallOnly(M, start, goal) == MapAt(M, start[2], start[1]) # 0

\* Line 201: start or goal is in a wall.
StartOrGoalInWall(M, start, goal) ==
  MapAt(M, start[2], start[1]) # 0 \/ MapAt(M, goal[2], goal[1]) # 0

\* Lines 197-231: the grid cells, the wall test, the start node.
Enter(M, sx, sy, gx, gy) ==
  LET start == GridCell(sx, sy)
      goal == GridCell(gx, gy)
      h == Heuristic(start[1], start[2], goal[1], goal[2])
      start_node == [PathNode(start[1], start[2], 0) EXCEPT !.h = h, !.f = 1000 * h]
  IN IF WallTestRaises(M, start, goal)
     THEN [NewCall EXCEPT !.pc = "raised"]
     ELSE IF StartOrGoalInWall(M, start, goal)
     THEN [NewCall EXCEPT !.pc = "done"]
     ELSE [NewCall EXCEPT !.pc = "loop", !.created = TRUE,
                          !.goal = goal,
                          !.nodes = <<start_node>>,
                          !.open_list = heappush(<<start_node>>, <<>>, 1)]

\* Line 260-261: is (new_x, new_y) worth a neighbour node?
ValidPosition(M, closed_set, new_x, new_y) ==
  /\ 0 <= new_x /\ new_x < MAP_WIDTH
  /\ 0 <= new_y /\ new_y < MAP_HEIGHT
  /\ M[new_y][new_x] = 0
  /\ <<new_x, new_y>> \notin closed_set

\* Line 270 refusing the step only when both orthogonal cells are walls.
CornerBlockedByBoth(M, x, y, new_x, new_y) ==
  MapAt(M, y, new_x) # 0 /\ MapAt(M, new_y, x) # 0

\* Line 270: a diagonal step from (x, y) to (new_x, new_y) would cut a corner.
CornerBlocked(M, x, y, new_x, new_y) ==
  MapAt(M, y, new_x) # 0 \/ MapAt(M, new_y, x) # 0

\* Lines 285-288 without the comparison of the cells: any open node whose g
\* is no worse.
BetterNodeAnywhere(nodes, open_list, neighbor) ==
  \E k \in 1 .. Len(open_list) : nodes[open_list[k]].g <= neighbor.g

\* Lines 285-288: an open node of the same cell whose g is no worse.
BetterNodeExists(nodes, open_list, neighbor) ==
  \E k \in 1 .. Len(open_list) :
     NodeEq(nodes[open_list[k]], neighbor) /\ nodes[open_list[k]].g <= neighbor.g

\* Lines 256-291: the loop body for one direction d from node `cur`.
Neighbour(M, s, cur, d) ==
  LET current_node == s.nodes[cur]
      new_x == current_node.x + d[1]
      new_y == current_node.y + d[2]
      diagonal == d[1] # 0 /\ d[2] # 0
      g == current_node.g + (IF diagonal THEN DIAGONAL_COST ELSE CARDINAL_COST)
      h == Heuristic(new_x, new_y, s.goal[1], s.goal[2])
      neighbor == [PathNode(new_x, new_y, cur) EXCEPT !.g = g, !.h = h, !.f = g + 1000 * h]
      nodes == Append(s.nodes, neighbor)
  IN IF ~ValidPosition(M, s.closed_set, new_x, new_y)
     THEN s
     ELSE IF diagonal /\ CornerBlocked(M, current_node.x, current_node.y, new_x, new_y)
     THEN [s EXCEPT !.corner_skips = @ \cup {<<current_node.x, current_node.y, new_x, new_y>>}]
     ELSE IF BetterNodeExists(s.nodes, s.open_list, neighbor)
     THEN s
     ELSE [s EXCEPT !.nodes = nodes,
                    !.open_list = heappush(nodes, s.open_list, Len(nodes))]

RECURSIVE Neighbours(_, _, _, _)
Neighbours(M, s, cur, i) ==
  IF i > Len(directions) THEN s
  ELSE Neighbours(M, Neighbour(M, s, cur, directions[i]), cur, i + 1)

\* Lines 243-249 without the reversal of line 249.
RECURSIVE ReconstructGoalFirst(_, _)
ReconstructGoalFirst(nodes, n) ==
  IF n = 0 THEN <<>>
  ELSE <<TileCentre(nodes[n].x, nodes[n].y)>> \o ReconstructGoalFirst(nodes, nodes[n].parent)

\* Lines 243-249 stopping at the root instead of after it.
RECURSIVE ReconstructWithoutRoot(_, _)
ReconstructWithoutRoot(nodes, n) ==
  IF nodes[n].parent = 0 THEN <<>>
  ELSE Append(ReconstructWithoutRoot(nodes, nodes[n].parent), TileCentre(nodes[n].x, nodes[n].y))

\* Lines 243-249: walk the parent links, then reverse.
RECURSIVE Reconstruct(_, _)
Reconstruct(nodes, n) ==
  IF n = 0 THEN <<>>
  ELSE Append(Reconstruct(nodes, nodes[n].parent), TileCentre(nodes[n].x, nodes[n].y))

\* Line 234 without the budget.
LoopWhileOpen(s, max_it) == s.open_list # <<>>

\* Line 234: the while test.
LoopCondition(s, max_it) == s.open_list # <<>> /\ s.iterations < max_it

\* Lines 235-291: one pass of the while body.
Iterate(M, s) ==
  LET popped == heappop(s.nodes, s.open_list)
      cur == popped[1]
      current_node == s.nodes[cur]
      t == [s EXCEPT !.iterations = @ + 1, !.open_list = popped[2]]
  IN IF current_node.x = s.goal[1] /\ current_node.y = s.goal[2]
     THEN [t EXCEPT !.pc = "done", !.path = Reconstruct(s.nodes, cur)]
     ELSE Neighbours(M,
            [t EXCEPT !.closed_set = @ \cup {<<current_node.x, current_node.y>>},
                      !.expanded = Append(@, <<current_node.x, current_node.y>>)],
            cur, 1)

\* Lines 293-294: the loop ended without reaching the goal.
NoPath(s) == [s EXCEPT !.pc = "done", !.path = <<>>]

\* The whole call, as its callers see it: the returned path.
RECURSIVE RunLoop(_, _, _)
RunLoop(M, s, max_it) ==
  IF s.pc # "loop" THEN s
  ELSE IF LoopCondition(s, max_it) THEN RunLoop(M, Iterate(M, s), max_it)
  ELSE NoPath(s)

a_star_pathfinding(M, sx, sy, gx, gy, max_it) == RunLoop(M, Enter(M, sx, sy, gx, gy), max_it)

\* ------------------------------------------------- the search, step by step
\* World coordinates of the cells the program can stand in or aim at.
CellsX == 0 .. MAP_WIDTH - 1
CellsY == 0 .. MAP_HEIGHT - 1

\* No game is running while the pathfinder is studied alone.
Idle == [op |-> "none"]
\* The manager's clusters and spawning, the gun and the renderer take no part
\* where the pathfinder or one enemy method is studied alone.
NoGame == manager = <<>> /\ gun = <<>> /\ frame = <<>>
NoWorld ==
  player = [x |-> 0, y |-> 0] /\ enemies = <<>> /\ last = Idle /\ steps = 0 /\ NoGame

InitAStar ==
  /\ MAP \in Grids
  /\ \E cx \in CellsX : start_x = cx * TILE_SIZE
  /\ \E cy \in CellsY : start_y = cy * TILE_SIZE
  /\ \E cx \in CellsX : goal_x = cx * TILE_SIZE + TILE_SIZE - 1
  /\ \E cy \in CellsY : goal_y = cy * TILE_SIZE + TILE_SIZE - 1
  /\ max_iterations \in {SmallBudget, DEFAULT_MAX_ITERATIONS}
  /\ astar = NewCall
  /\ NoWorld

\* Positions a caller could pass if nothing kept it on the map: cells from
\* two columns (rows) before the grid to one past it.
InitAStarAnywhere ==
  /\ MAP \in Grids
  /\ \E cx \in -2 .. MAP_WIDTH : start_x = cx * TILE_SIZE
  /\ \E cy \in -2 .. MAP_HEIGHT : start_y = cy * TILE_SIZE
  /\ \E cx \in -2 .. MAP_WIDTH : goal_x = cx * TILE_SIZE
  /\ \E cy \in -2 .. MAP_HEIGHT : goal_y = cy * TILE_SIZE
  /\ max_iterations = DEFAULT_MAX_ITERATIONS
  /\ astar = NewCall
  /\ NoWorld

\* The same calls in the rooms of WideW by WideH cells.
InitAStarWide ==
  /\ MAP \in {Room(WideW, WideH, walls) :
               walls \in {w \in SUBSET InteriorOf(WideW, WideH) : Cardinality(w) <= MaxWalls}}
  /\ \E cx \in CellsX : start_x = cx * TILE_SIZE
  /\ \E cy \in CellsY : start_y = cy * TILE_SIZE
  /\ \E cx \in CellsX : goal_x = cx * TILE_SIZE + TILE_SIZE - 1
  /\ \E cy \in CellsY : goal_y = cy * TILE_SIZE + TILE_SIZE - 1
  /\ max_iterations \in {SmallBudget, DEFAULT_MAX_ITERATIONS}
  /\ astar = NewCall
  /\ NoWorld

AStarEnter ==
  /\ astar.pc = "call"
  /\ astar' = Enter(MAP, start_x, start_y, goal_x, goal_y)
  /\ UNCHANGED <<MAP, start_x, start_y, goal_x, goal_y, max_iterations, player, enemies, last, steps, manager, gun, frame>>

AStarIterate ==
  /\ astar.pc = "loop"
  /\ LoopCondition(astar, max_iterations)
  /\ astar' = Iterate(MAP, astar)
  /\ UNCHANGED <<MAP, start_x, start_y, goal_x, goal_y, max_iterations, player, enemies, last, steps, manager, gun, frame>>

AStarNoPath ==
  /\ astar.pc = "loop"
  /\ ~LoopCondition(astar, max_iterations)
  /\ astar' = NoPath(astar)
  /\ UNCHANGED <<MAP, start_x, start_y, goal_x, goal_y, max_iterations, player, enemies, last, steps, manager, gun, frame>>

NextAStar == AStarEnter \/ AStarIterate \/ AStarNoPath

SpecAStar == InitAStar /\ [][NextAStar]_vars

SpecAStarAnywhere == InitAStarAnywhere /\ [][NextAStar]_vars

SpecAStarWide == InitAStarWide /\ [][NextAStar]_vars

\* ------------------------------------------ properties of the search (A*)
StartCell == GridCell(start_x, start_y)
GoalCell == GridCell(goal_x, goal_y)
InGrid(c) == /\ 0 <= c[1] /\ c[1] < MAP_WIDTH
             /\ 0 <= c[2] /\ c[2] < MAP_HEIGHT
IsWall(c) == MAP[c[2]][c[1]] # 0
Returned == astar.pc = "done"
WaypointCell(w) == GridCell(w[1], w[2])
Max(a, b) == IF a > b THEN a ELSE b
Min(a, b) == IF a < b THEN a ELSE b
\* Steps of the returned path that change both coordinates, and the others.
DiagonalSteps ==
  {i \in 1 .. Len(astar.path) - 1 :
     /\ astar.path[i][1] # astar.path[i + 1][1]
     /\ astar.path[i][2] # astar.path[i + 1][2]}
CardinalSteps == (1 .. Len(astar.path) - 1) \ DiagonalSteps

\* C1: when the start cell or the goal cell is a wall, the call returns the
\* empty path with zero loop iterations: nothing was popped or expanded, no
\* node was made and the open list was never created.
C1_WallReturnsEmptyWithoutSearch ==
  (astar.pc # "call" /\ (IsWall(StartCell) \/ IsWall(GoalCell)))
    => /\ Returned
       /\ astar.path = <<>>
       /\ astar.iterations = 0
       /\ astar.expanded = <<>>
       /\ astar.nodes = <<>>
       /\ ~astar.created

\* The goal alone is in a wall, and the call has returned.
C1_Witness == Returned /\ ~IsWall(StartCell) /\ IsWall(GoalCell)

\* C2: no returned path holds a diagonal step one of whose two orthogonal
\* neighbour cells is a wall.
C2_NoCornerCutting ==
  Returned =>
    \A i \in DiagonalSteps :
       LET a == WaypointCell(astar.path[i])
           b == WaypointCell(astar.path[i + 1])
       IN MAP[a[2]][b[1]] = 0 /\ MAP[b[2]][a[1]] = 0

\* The search refused the diagonal step from the start cell onto the goal
\* cell, and the path it returned goes around the corner.
C2_Witness ==
  /\ Returned
  /\ <<StartCell[1], StartCell[2], GoalCell[1], GoalCell[2]>> \in astar.corner_skips
  /\ Len(astar.path) >= 3

\* C3: a returned non-empty path runs from the centre of the start cell to the
\* centre of the goal cell, over centres of non-wall cells of the grid, each
\* an 8-connected neighbour of the one before.
C3_PathStartToGoal ==
  (Returned /\ astar.path # <<>>) =>
    /\ astar.path[1] = TileCentre(StartCell[1], StartCell[2])
    /\ astar.path[Len(astar.path)] = TileCentre(GoalCell[1], GoalCell[2])
    /\ \A i \in 1 .. Len(astar.path) :
          LET c == WaypointCell(astar.path[i])
          IN /\ astar.path[i] = TileCentre(c[1], c[2])
             /\ InGrid(c) /\ ~IsWall(c)
    /\ \A i \in 1 .. Len(astar.path) - 1 :
          LET a == WaypointCell(astar.path[i])
              b == WaypointCell(astar.path[i + 1])
          IN Max(Abs(a[1] - b[1]), Abs(a[2] - b[2])) = 1

\* A returned path of at least three waypoints around a wall.
C3_Witness ==
  /\ Returned /\ Len(astar.path) >= 3
  /\ StartCell # GoalCell
  /\ astar.corner_skips # {}

\* C4: in a room without interior walls, with the default budget, the
\* returned path has max(|dx|,|dy|) steps: min(|dx|,|dy|) diagonal ones and
\* ||dx|-|dy|| cardinal ones (so only diagonal ones between opposite corners
\* of a square room), which cost min*1.414 + ||dx|-|dy||*1.
OpenRoom == MAP = GridOf({})
C4_OpenRoomChebyshev ==
  (/\ Returned /\ OpenRoom
   /\ max_iterations = DEFAULT_MAX_ITERATIONS
   /\ StartCell \in Interior /\ GoalCell \in Interior) =>
    LET dx == Abs(GoalCell[1] - StartCell[1])
        dy == Abs(GoalCell[2] - StartCell[2])
    IN /\ Len(astar.path) - 1 = Max(dx, dy)
       /\ Cardinality(DiagonalSteps) = Min(dx, dy)
       /\ Cardinality(CardinalSteps) = Abs(dx - dy)
       /\ (dx = dy => CardinalSteps = {})

\* An open room crossed with one diagonal and one cardinal step.
C4_Witness ==
  /\ Returned /\ OpenRoom /\ max_iterations = DEFAULT_MAX_ITERATIONS
  /\ Abs(GoalCell[1] - StartCell[1]) = 2
  /\ Abs(GoalCell[2] - StartCell[2]) = 1
  /\ Len(astar.path) = 3

\* C5: start and goal in the same non-wall cell give a path of exactly one
\* waypoint, the centre of that cell.
C5_SameCellOneWaypoint ==
  (Returned /\ StartCell = GoalCell /\ ~IsWall(StartCell)) =>
    astar.path = <<TileCentre(StartCell[1], StartCell[2])>>

\* Start and goal are different positions of one free cell.
C5_Witness ==
  /\ Returned /\ StartCell = GoalCell /\ ~IsWall(StartCell)
  /\ <<start_x, start_y>> # <<goal_x, goal_y>>
  /\ astar.iterations = 1

\* C8: a start or goal cell outside the grid counts as a wall: the call
\* returns the empty path, raises nothing, reads no cell of the grid in its
\* place (so runs no loop iteration), and expands no cell outside the grid.
C8_OutsideGridIsWall ==
  (astar.pc # "call" /\ (~InGrid(StartCell) \/ ~InGrid(GoalCell)))
    => /\ astar.pc # "raised"
       /\ astar.path = <<>>
       /\ astar.iterations = 0
       /\ \A i \in 1 .. Len(astar.expanded) : InGrid(astar.expanded[i])

\* ==================================================================== Enemy
\* Not modelled: alert_level and angle (written, never read by any decision
\* of the enemy, the manager or the pathfinder), sprites, sounds.
\* Fractions of the source are held scaled: speeds in hundredths of a tile
\* per update, attack ranges and the state speed factors in tenths.

\* Enemy state settings (line 104).
SIGHT_RANGE == 200

\* Enemy._set_type_stats (lines 678-699) over the settings of lines 82-98.
TypeStats(enemy_type) ==
  CASE enemy_type = "scout" ->
         [max_hp |-> 3, speed |-> 12, damage |-> 8, attack_range |-> 12,
          max_attack_cooldown |-> SCOUT_ATTACK_COOLDOWN]
    [] enemy_type = "tank" ->
         [max_hp |-> 12, speed |-> 5, damage |-> 15, attack_range |-> 18,
          max_attack_cooldown |-> TANK_ATTACK_COOLDOWN]
    [] enemy_type = "ranged" ->
         [max_hp |-> 2, speed |-> 6, damage |-> 12, attack_range |-> 60,
          max_attack_cooldown |-> RANGED_ATTACK_COOLDOWN]

\* The value None of last_player_pos; a position is <<x, y>>.
None == <<>>

\* Enemy.__init__ (lines 635-676), with the patrol route it is given.
NewEnemy(x, y, enemy_type, patrol_points) ==
  [x |-> x, y |-> y, enemy_type |-> enemy_type, hp |-> TypeStats(enemy_type).max_hp,
   attack_cooldown |-> 0, hit_effect |-> 0,
   path |-> <<>>, path_update_counter |-> 0, current_path_index |-> 0,
   state |-> "PATROL", state_timer |-> 0, last_player_pos |-> None,
   patrol_points |-> patrol_points, current_patrol_index |-> 0]

\* Squared distance between two positions.
Dist2(ax, ay, bx, by) == (ax - bx) * (ax - bx) + (ay - by) * (ay - by)

\* The largest k with k*k <= n: int(math.sqrt(n)).
RECURSIVE SqrtBetween(_, _, _)
SqrtBetween(lo, hi, n) ==
  IF lo >= hi THEN lo
  ELSE LET mid == (lo + hi + 1) \div 2
       IN IF mid * mid <= n THEN SqrtBetween(mid, hi, n) ELSE SqrtBetween(lo, mid - 1, n)
ISqrt(n) == SqrtBetween(0, Min(n, 46340), n)

\* ------------------------------------------------ Enemy._dda_line_of_sight
\* Side distances are compared as exact fractions: side_dist_x = nx / |dx|
\* and side_dist_y = ny / |dy| in units of ray_length / TILE_SIZE, infinite
\* when the ray does not move along that axis.  Where the two are equal (the
\* ray meets a corner of the grid) the source's comparison is decided by the
\* rounding of its floating-point quotients, so both orders are outcomes.
SideXCloser(nx, ny, dx, dy) ==
  IF dx = 0 THEN {FALSE}
  ELSE IF dy = 0 THEN {TRUE}
  ELSE IF nx * Abs(dy) = ny * Abs(dx) THEN {TRUE, FALSE}
  ELSE {nx * Abs(dy) < ny * Abs(dx)}

\* Lines 883-913: the march, from cell (map_x, map_y) after dda_steps steps;
\* the set of results it can return.
RECURSIVE DdaMarch(_, _, _, _, _, _, _)
DdaMarch(M, ray, map_x, map_y, nx, ny, dda_steps) ==
  IF dda_steps >= ray.max_dda_steps THEN {TRUE}
  ELSE IF map_x = ray.target_map_x /\ map_y = ray.target_map_y THEN {TRUE}
  ELSE IF 100 * Dist2(map_x * TILE_SIZE + TILE_SIZE \div 2,
                      map_y * TILE_SIZE + TILE_SIZE \div 2, ray.end_x, ray.end_y)
          < TILE_SIZE * TILE_SIZE
  THEN {TRUE}
  ELSE UNION {
         LET new_x == IF step_in_x THEN map_x + ray.step_x ELSE map_x
             new_y == IF step_in_x THEN map_y ELSE map_y + ray.step_y
         IN IF ~(0 <= new_x /\ new_x < MAP_WIDTH /\ 0 <= new_y /\ new_y < MAP_HEIGHT)
            THEN {FALSE}
            ELSE IF M[new_y][new_x] > 0
            THEN {FALSE}
            ELSE DdaMarch(M, ray, new_x, new_y,
                          IF step_in_x THEN nx + TILE_SIZE ELSE nx,
                          IF step_in_x THEN ny ELSE ny + TILE_SIZE,
                          dda_steps + 1)
         : step_in_x \in SideXCloser(nx, ny, ray.dx, ray.dy)}

\* Lines 833-881: the ray from (start_x, start_y) to (end_x, end_y).
_dda_line_of_sight(M, sx, sy, ex, ey) ==
  LET dx == ex - sx
      dy == ey - sy
      map_x == IntTrunc(sx, TILE_SIZE)
      map_y == IntTrunc(sy, TILE_SIZE)
      ray == [dx |-> dx, dy |-> dy, end_x |-> ex, end_y |-> ey,
              step_x |-> IF dx >= 0 THEN 1 ELSE -1,
              step_y |-> IF dy >= 0 THEN 1 ELSE -1,
              target_map_x |-> IntTrunc(ex, TILE_SIZE),
              target_map_y |-> IntTrunc(ey, TILE_SIZE),
              max_dda_steps |-> ISqrt(Dist2(sx, sy, ex, ey)) \div TILE_SIZE + 2]
      nx == IF dx < 0 THEN sx - map_x * TILE_SIZE ELSE (map_x + 1) * TILE_SIZE - sx
      ny == IF dy < 0 THEN sy - map_y * TILE_SIZE ELSE (map_y + 1) * TILE_SIZE - sy
  IN IF dx = 0 /\ dy = 0 THEN {TRUE}
     ELSE DdaMarch(M, ray, map_x, map_y, nx, ny, 0)

\* Enemy._can_see_player (lines 816-831): the set of results it can return.
_can_see_player(M, e, p) ==
  LET d2 == Dist2(p.x, p.y, e.x, e.y)
  IN IF d2 > (SIGHT_RANGE * TILE_SIZE) * (SIGHT_RANGE * TILE_SIZE) THEN {FALSE}
     ELSE IF 100 * d2 < TILE_SIZE * TILE_SIZE THEN {TRUE}
     ELSE _dda_line_of_sight(M, e.x, e.y, p.x, p.y)

\* ----------------------------------------------------------- Enemy, update
\* The enemies are held in list order; an enemy is named by its place in the
\* list.  Each operator below returns what the method leaves behind.

\* state_timer only ever is compared with ALERT_DURATION and SEARCH_DURATION;
\* it is held up to the first value that exceeds both.
TimerTop == Max(ALERT_DURATION, SEARCH_DURATION) + 1

\* Lines 969-987 without the test of line 982: allies in any state are set.
AlertNearbyInAnyState(es, i, p) ==
  [j \in 1 .. Len(es) |->
     IF /\ j # i
        /\ Dist2(es[j].x, es[j].y, es[i].x, es[i].y)
             <= (COORDINATION_RANGE * TILE_SIZE) * (COORDINATION_RANGE * TILE_SIZE)
     THEN [es[j] EXCEPT !.state = "ATTACK", !.state_timer = 0,
                        !.last_player_pos = <<p.x, p.y>>]
     ELSE es[j]]

\* Lines 969-987 as they would be if an alerted ally went to ALERT.
AlertNearbyIntoAlert(es, i, p) ==
  [j \in 1 .. Len(es) |->
     IF /\ j # i
        /\ Dist2(es[j].x, es[j].y, es[i].x, es[i].y)
             <= (COORDINATION_RANGE * TILE_SIZE) * (COORDINATION_RANGE * TILE_SIZE)
        /\ es[j].state = "PATROL"
     THEN [es[j] EXCEPT !.state = "ALERT", !.state_timer = 0,
                        !.last_player_pos = <<p.x, p.y>>]
     ELSE es[j]]

\* Lines 969-987 as they would be if the alert also threw away the ally's
\* path.
AlertNearbyAndClearPath(es, i, p) ==
  [j \in 1 .. Len(es) |->
     IF /\ j # i
        /\ Dist2(es[j].x, es[j].y, es[i].x, es[i].y)
             <= (COORDINATION_RANGE * TILE_SIZE) * (COORDINATION_RANGE * TILE_SIZE)
        /\ es[j].state = "PATROL"
     THEN [es[j] EXCEPT !.state = "ATTACK", !.state_timer = 0,
                        !.last_player_pos = <<p.x, p.y>>,
                        !.path = <<>>, !.current_path_index = 0]
     ELSE es[j]]

\* Enemy._alert_nearby_enemies (lines 969-987), called by enemy i.
_alert_nearby_enemies(es, i, p) ==
  [j \in 1 .. Len(es) |->
     IF /\ j # i
        /\ Dist2(es[j].x, es[j].y, es[i].x, es[i].y)
             <= (COORDINATION_RANGE * TILE_SIZE) * (COORDINATION_RANGE * TILE_SIZE)
        /\ es[j].state = "PATROL"
     THEN [es[j] EXCEPT !.state = "ATTACK", !.state_timer = 0,
                        !.last_player_pos = <<p.x, p.y>>]
     ELSE es[j]]

\* Lines 917-938 as they would be if a sighting in PATROL raised the alarm
\* first: PATROL goes to ALERT, not to ATTACK.
SightingAlertsFirst(es, i, p, player_in_sight) ==
  LET ticked == [es EXCEPT ![i].state_timer = Min(@ + 1, TimerTop)]
  IN IF ~player_in_sight THEN ticked
     ELSE LET spotted ==
                IF ticked[i].state = "PATROL"
                THEN [ticked EXCEPT ![i].state = "ALERT", ![i].state_timer = 0]
                ELSE IF ticked[i].state = "SEARCH"
                THEN [ticked EXCEPT ![i].state = "ATTACK", ![i].state_timer = 0]
                ELSE ticked
          IN [spotted EXCEPT ![i].last_player_pos = <<p.x, p.y>>]

\* Lines 917-938 of Enemy._update_state: the timer and the sighting.
Sighting(es, i, p, player_in_sight) ==
  LET ticked == [es EXCEPT ![i].state_timer = Min(@ + 1, TimerTop)]
  IN IF ~player_in_sight THEN ticked
     ELSE LET spotted ==
                IF ticked[i].state = "PATROL"
                THEN _alert_nearby_enemies(
                       [ticked EXCEPT ![i].state = "ATTACK", ![i].state_timer = 0,
                                      ![i].last_player_pos = <<p.x, p.y>>], i, p)
                ELSE IF ticked[i].state = "SEARCH"
                THEN [ticked EXCEPT ![i].state = "ATTACK", ![i].state_timer = 0]
                ELSE ticked
          IN [spotted EXCEPT ![i].last_player_pos = <<p.x, p.y>>]

\* Lines 940-967 with ALERT left at the timeout only (line 948 without
\* `or not player_in_sight`).
StateBehaviourAlertHeld(e, player_in_sight) ==
  CASE e.state = "PATROL" -> e
    [] e.state = "ALERT" ->
         IF e.state_timer > ALERT_DURATION
         THEN IF e.last_player_pos # None
              THEN [e EXCEPT !.state = "SEARCH", !.state_timer = 0]
              ELSE [e EXCEPT !.state = "PATROL", !.state_timer = 0]
         ELSE e
    [] e.state = "SEARCH" ->
         IF player_in_sight
         THEN [e EXCEPT !.state = "ATTACK", !.state_timer = 0]
         ELSE IF e.state_timer > SEARCH_DURATION
         THEN [e EXCEPT !.state = "PATROL", !.state_timer = 0, !.last_player_pos = None]
         ELSE e
    [] e.state = "ATTACK" ->
         IF ~player_in_sight
         THEN [e EXCEPT !.state = "SEARCH", !.state_timer = 0]
         ELSE e

\* Lines 940-967 with the search timing out one update early (>= at line 959).
StateBehaviourSearchEndsEarly(e, player_in_sight) ==
  CASE e.state = "PATROL" -> e
    [] e.state = "ALERT" ->
         IF e.state_timer > ALERT_DURATION \/ ~player_in_sight
         THEN IF e.last_player_pos # None
              THEN [e EXCEPT !.state = "SEARCH", !.state_timer = 0]
              ELSE [e EXCEPT !.state = "PATROL", !.state_timer = 0]
         ELSE e
    [] e.state = "SEARCH" ->
         IF player_in_sight
         THEN [e EXCEPT !.state = "ATTACK", !.state_timer = 0]
         ELSE IF e.state_timer >= SEARCH_DURATION
         THEN [e EXCEPT !.state = "PATROL", !.state_timer = 0, !.last_player_pos = None]
         ELSE e
    [] e.state = "ATTACK" ->
         IF ~player_in_sight
         THEN [e EXCEPT !.state = "SEARCH", !.state_timer = 0]
         ELSE e

\* Lines 940-967 as they would be if an enemy in ALERT that sees the player
\* started its alert again instead of leaving it at the timeout.
StateBehaviourAlertRenewed(e, player_in_sight) ==
  CASE e.state = "PATROL" -> e
    [] e.state = "ALERT" ->
         IF player_in_sight
         THEN [e EXCEPT !.state_timer = 0]
         ELSE IF e.last_player_pos # None
         THEN [e EXCEPT !.state = "SEARCH", !.state_timer = 0]
         ELSE [e EXCEPT !.state = "PATROL", !.state_timer = 0]
    [] e.state = "SEARCH" ->
         IF player_in_sight
         THEN [e EXCEPT !.state = "ATTACK", !.state_timer = 0]
         ELSE IF e.state_timer > SEARCH_DURATION
         THEN [e EXCEPT !.state = "PATROL", !.state_timer = 0, !.last_player_pos = None]
         ELSE e
    [] e.state = "ATTACK" ->
         IF ~player_in_sight
         THEN [e EXCEPT !.state = "SEARCH", !.state_timer = 0]
         ELSE e

\* Lines 940-967 of Enemy._update_state: the behaviour of the state reached.
StateBehaviour(e, player_in_sight) ==
  CASE e.state = "PATROL" -> e
    [] e.state = "ALERT" ->
         IF e.state_timer > ALERT_DURATION \/ ~player_in_sight
         THEN IF e.last_player_pos # None
              THEN [e EXCEPT !.state = "SEARCH", !.state_timer = 0]
              ELSE [e EXCEPT !.state = "PATROL", !.state_timer = 0]
         ELSE e
    [] e.state = "SEARCH" ->
         IF player_in_sight
         THEN [e EXCEPT !.state = "ATTACK", !.state_timer = 0]
         ELSE IF e.state_timer > SEARCH_DURATION
         THEN [e EXCEPT !.state = "PATROL", !.state_timer = 0, !.last_player_pos = None]
         ELSE e
    [] e.state = "ATTACK" ->
         IF ~player_in_sight
         THEN [e EXCEPT !.state = "SEARCH", !.state_timer = 0]
         ELSE e

\* Enemy._update_state (lines 915-967).
_update_state(es, i, p, player_in_sight) ==
  LET seen == Sighting(es, i, p, player_in_sight)
  IN [seen EXCEPT ![i] = StateBehaviour(@, player_in_sight)]

\* What one call of _update_pathfinding did: the enemy it leaves, whether it
\* re-planned, and the pathfinder call it made, if any.
NoPlan(e) == [e |-> e, should_update_path |-> FALSE, called |-> FALSE,
              returned |-> <<>>, raised |-> FALSE]

\* Lines 1037-1039: the stored path is cut to MAX_PATH_LENGTH waypoints.
LimitPath(path) ==
  IF Len(path) > MAX_PATH_LENGTH THEN SubSeq(path, 1, MAX_PATH_LENGTH) ELSE path

\* Lines 1006-1010: the next patrol point once this one is within 0.8 tile.
AdvancePatrol(e) ==
  LET target == e.patrol_points[e.current_patrol_index + 1]
  IN IF 100 * Dist2(target[1], target[2], e.x, e.y) < 64 * TILE_SIZE * TILE_SIZE
     THEN [e EXCEPT !.current_patrol_index = (@ + 1) % Len(e.patrol_points)]
     ELSE e

\* A search that never clears the last known position (no lines 1031-1035).
KeepSearching(e) == e

\* Lines 1031-1035: the search ends within one tile of the last known position.
StopSearching(e) ==
  IF Dist2(e.last_player_pos[1], e.last_player_pos[2], e.x, e.y) < TILE_SIZE * TILE_SIZE
  THEN [e EXCEPT !.last_player_pos = None]
  ELSE e

\* Line 993 without `or not self.path`.
ShouldUpdatePathByCounter(e) == e.path_update_counter >= PATH_UPDATE_FREQUENCY

\* Lines 993-994: should_update_path.
ShouldUpdatePath(e) ==
  e.path_update_counter >= PATH_UPDATE_FREQUENCY \/ e.path = <<>>

\* Lines 1000-1029: where a re-plan aims, by state; None for a search with
\* no last known position.  A patrol route always holds two points here, as
\* the routes of lines 701-770 do, so lines 1012-1018 are never taken.
PlanTarget(e, p) ==
  CASE e.state = "PATROL" -> e.patrol_points[e.current_patrol_index + 1]
    [] e.state \in {"ALERT", "ATTACK"} -> <<p.x, p.y>>
    [] e.state = "SEARCH" -> e.last_player_pos

\* Lines 1006-1010 and 1031-1035: the statements after the call, by state.
AfterCall(e) ==
  CASE e.state = "PATROL" -> AdvancePatrol(e)
    [] e.state = "SEARCH" -> StopSearching(e)
    [] OTHER -> e

\* self.path = call, the finished call of a_star_pathfinding, and the rest
\* of the re-plan; an IndexError in the call leaves the update there.
Planned(e, call) ==
  IF call.pc = "raised"
  THEN [e |-> e, should_update_path |-> TRUE, called |-> TRUE,
        returned |-> <<>>, raised |-> TRUE]
  ELSE [e |-> [AfterCall([e EXCEPT !.path = call.path]) EXCEPT !.path = LimitPath(@)],
        should_update_path |-> TRUE, called |-> TRUE,
        returned |-> call.path, raised |-> FALSE]

\* Lines 996-1039: the re-plan of enemy e towards target.
PlanTo(M, e, target) ==
  IF target = None
  THEN [NoPlan([e EXCEPT !.path = LimitPath(@)]) EXCEPT !.should_update_path = TRUE]
  ELSE Planned(e, a_star_pathfinding(M, e.x, e.y, target[1], target[2],
                                     DEFAULT_MAX_ITERATIONS))

\* Lines 993-1039 without line 998: a re-plan that keeps the cursor.
ReplanKeepingCursor(M, counted, p) ==
  IF ~ShouldUpdatePath(counted) THEN NoPlan(counted)
  ELSE PlanTo(M, [counted EXCEPT !.path_update_counter = 0], PlanTarget(counted, p))

\* Lines 993-1039, once the counter is counted.
Replan(M, counted, p) ==
  IF ~ShouldUpdatePath(counted) THEN NoPlan(counted)
  ELSE PlanTo(M, [counted EXCEPT !.path_update_counter = 0, !.current_path_index = 0],
              PlanTarget(counted, p))

\* Enemy._update_pathfinding (lines 989-1039).
_update_pathfinding(M, e, p) ==
  Replan(M, [e EXCEPT !.path_update_counter = @ + 1], p)

\* Lines 1062-1069: the speed factor of a state, in tenths.
speed_multiplier(state) ==
  CASE state = "ATTACK" -> 13
    [] state = "ALERT" -> 12
    [] state = "SEARCH" -> 8
    [] OTHER -> 10

\* Lines 1043-1072 of Enemy._move: the position (new_x, new_y) the enemy asks
\* to move to, or None when it asks for no move (no waypoint left, or the
\* waypoint within half a tile).
MoveRequest(e) ==
  IF e.path = <<>> \/ e.current_path_index >= Len(e.path) THEN None
  ELSE LET target == e.path[e.current_path_index + 1]
           path_dx == target[1] - e.x
           path_dy == target[2] - e.y
           d2 == path_dx * path_dx + path_dy * path_dy
           reach == TypeStats(e.enemy_type).speed * TILE_SIZE * speed_multiplier(e.state)
           path_distance == ISqrt(100 * d2)
       IN IF 4 * d2 < TILE_SIZE * TILE_SIZE THEN None
          ELSE <<e.x + IntTrunc(path_dx * reach, 100 * path_distance),
                 e.y + IntTrunc(path_dy * reach, 100 * path_distance)>>

\* Enemy._move without the test of lines 1080-1081: every request is granted.
MoveThroughWalls(M, e) ==
  IF e.path = <<>> \/ e.current_path_index >= Len(e.path) THEN e
  ELSE IF MoveRequest(e) = None THEN [e EXCEPT !.current_path_index = @ + 1]
  ELSE [e EXCEPT !.x = MoveRequest(e)[1], !.y = MoveRequest(e)[2]]

\* Enemy._move (lines 1041-1083).  The step is speed * TILE_SIZE *
\* speed_multiplier along the unit vector to the waypoint; each component is
\* cut to whole world units.
_move(M, e) ==
  IF e.path = <<>> \/ e.current_path_index >= Len(e.path) THEN e
  ELSE LET target == e.path[e.current_path_index + 1]
           path_dx == target[1] - e.x
           path_dy == target[2] - e.y
           d2 == path_dx * path_dx + path_dy * path_dy
       IN IF 4 * d2 < TILE_SIZE * TILE_SIZE
          THEN [e EXCEPT !.current_path_index = @ + 1]
          ELSE LET reach == TypeStats(e.enemy_type).speed * TILE_SIZE
                              * speed_multiplier(e.state)
                   path_distance == ISqrt(100 * d2)
                   new_x == e.x + IntTrunc(path_dx * reach, 100 * path_distance)
                   new_y == e.y + IntTrunc(path_dy * reach, 100 * path_distance)
                   map_x == IntTrunc(new_x, TILE_SIZE)
                   map_y == IntTrunc(new_y, TILE_SIZE)
               IN IF /\ 0 <= map_x /\ map_x < MAP_WIDTH
                     /\ 0 <= map_y /\ map_y < MAP_HEIGHT
                     /\ M[map_y][map_x] = 0
                  THEN [e EXCEPT !.x = new_x, !.y = new_y]
                  ELSE e

\* Lines 796-814 without line 812: an attack leaves the cooldown at 0.
MoveAndAttackWithoutCooldown(M, judged, i, plan, d2) ==
  IF plan.raised
  THEN [enemies |-> [judged EXCEPT ![i] = plan.e], stunned |-> FALSE,
        plan |-> plan, attacking |-> FALSE]
  ELSE LET moved == _move(M, plan.e)
           cooled == IF moved.attack_cooldown > 0
                     THEN [moved EXCEPT !.attack_cooldown = @ - 1]
                     ELSE moved
           range == TILE_SIZE * TypeStats(cooled.enemy_type).attack_range
           attacking == /\ cooled.state = "ATTACK"
                        /\ 100 * d2 < range * range
                        /\ cooled.attack_cooldown = 0
       IN [enemies |-> [judged EXCEPT ![i] = cooled], stunned |-> FALSE,
           plan |-> plan, attacking |-> attacking]

\* Lines 796-814 of Enemy.update: the move, the cooldown and the attack, once
\* the states are judged and the path is planned; d2 is the squared distance
\* to the player when the update began.
MoveAndAttack(M, judged, i, plan, d2) ==
  IF plan.raised
  THEN [enemies |-> [judged EXCEPT ![i] = plan.e], stunned |-> FALSE,
        plan |-> plan, attacking |-> FALSE]
  ELSE LET moved == _move(M, plan.e)
           cooled == IF moved.attack_cooldown > 0
                     THEN [moved EXCEPT !.attack_cooldown = @ - 1]
                     ELSE moved
           range == TILE_SIZE * TypeStats(cooled.enemy_type).attack_range
           attacking == /\ cooled.state = "ATTACK"
                        /\ 100 * d2 < range * range
                        /\ cooled.attack_cooldown = 0
           done == IF attacking
                   THEN [cooled EXCEPT !.attack_cooldown =
                           TypeStats(cooled.enemy_type).max_attack_cooldown]
                   ELSE cooled
       IN [enemies |-> [judged EXCEPT ![i] = done], stunned |-> FALSE,
           plan |-> plan, attacking |-> attacking]

\* Lines 793-814 of Enemy.update, once the states are judged.
PlanMoveAndAttack(M, judged, i, p, d2) ==
  MoveAndAttack(M, judged, i, _update_pathfinding(M, judged[i], p), d2)

\* Enemy.update without the return of line 785: a stunned enemy counts its
\* stun down and goes on with the update.
UpdateThroughStun(M, es, i, p, player_in_sight) ==
  LET counted == IF es[i].hit_effect > 0 THEN [es EXCEPT ![i].hit_effect = @ - 1] ELSE es
  IN PlanMoveAndAttack(M, _update_state(counted, i, p, player_in_sight), i, p,
                       Dist2(p.x, p.y, es[i].x, es[i].y))

\* Enemy.update (lines 773-814) of enemy i, given what _can_see_player
\* answers: the enemies it leaves and what it did.
Update(M, es, i, p, player_in_sight) ==
  IF es[i].hit_effect > 0
  THEN [enemies |-> [es EXCEPT ![i].hit_effect = @ - 1], stunned |-> TRUE,
        plan |-> NoPlan(es[i]), attacking |-> FALSE]
  ELSE PlanMoveAndAttack(M, _update_state(es, i, p, player_in_sight), i, p,
                         Dist2(p.x, p.y, es[i].x, es[i].y))

\* Enemy.take_damage (lines 1103-1113) with damage = 1.
take_damage(e) ==
  LET hurt == [e EXCEPT !.hp = @ - 1, !.hit_effect = 5]
  IN IF hurt.state = "PATROL"
     THEN [hurt EXCEPT !.state = "ALERT", !.state_timer = 0]
     ELSE hurt

\* list.remove of the item at place i.
Remove(es, i) == SubSeq(es, 1, i - 1) \o SubSeq(es, i + 1, Len(es))

\* ------------------------------------------------------------------ Player
\* Player.__init__ (lines 551-560) at tile coordinates given in halves.
Player(x2, y2) == [x |-> (x2 * TILE_SIZE) \div 2 + TILE_SIZE \div 2,
                   y |-> (y2 * TILE_SIZE) \div 2 + TILE_SIZE \div 2]

movement_speed == 5

\* Lines 582-596 at angle 0, where the player is created and stays as long as
\* nothing turns it: the step of each movement key.
KeyStep(key) ==
  CASE key = "w" -> <<movement_speed, 0>>
    [] key = "s" -> <<-movement_speed, 0>>
    [] key = "a" -> <<0, -movement_speed>>
    [] key = "d" -> <<0, movement_speed>>
    [] OTHER -> <<0, 0>>

\* Player.update (lines 567-607): the position after one key.
PlayerStep(M, p, key) ==
  LET new_x == p.x + KeyStep(key)[1]
      new_y == p.y + KeyStep(key)[2]
      map_x == IntTrunc(new_x, TILE_SIZE)
      map_y == IntTrunc(new_y, TILE_SIZE)
  IN IF /\ 0 <= map_x /\ map_x < MAP_WIDTH
        /\ 0 <= map_y /\ map_y < MAP_HEIGHT
        /\ M[map_y][map_x] = 0
     THEN [p EXCEPT !.x = new_x, !.y = new_y]
     ELSE p

\* --------------------------------------------------------- the game's world
\* A world small enough to explore: two wall cells that close off the corner
\* cell <<1, 1>> (no diagonal move passes between them) and hide parts of
\* the room from each other.
WorldWalls == {<<2, 1>>, <<1, 2>>}

\* The player after n updates with the same key held.
RECURSIVE Walk(_, _, _, _)
Walk(M, p, key, n) == IF n = 0 THEN p ELSE Walk(M, PlayerStep(M, p, key), key, n - 1)

\* main (lines 2753 and 2791) creates Player(1.5, 1.5, 0).  The game is taken
\* up there, or after the player has walked forward into the next cell, one
\* step past the line behind which the wall cell <<2, 1>> hides it from the
\* cell <<3, 1>>.
StartPlayers(M) == {Player(3, 3), Walk(M, Player(3, 3), "w", TILE_SIZE \div movement_speed + 1)}

EnemyTypes == {"scout", "ranged"}

\* Patrol routes: two tile centres.  The first route can be walked; the
\* second starts in the closed-off corner, which no path reaches.
PatrolRoutes == { <<TileCentre(3, 1), TileCentre(3, 3)>>,
                  <<TileCentre(1, 1), TileCentre(2, 3)>> }

\* The cells enemies are spawned in: one that the wall cell <<2, 1>> hides
\* from the player's first position, one behind the wall cell <<1, 2>>.
SpawnCells == {<<3, 1>>, <<1, 3>>}

\* EnemyManager.spawn_enemy (lines 1508-1540): a spawn cell is in bounds, not
\* a wall, holds no other enemy, and has a path of at least two waypoints to
\* the player.
SpawnCellOK(M, c, es, p) ==
  /\ 0 <= c[1] /\ c[1] < MAP_WIDTH /\ 0 <= c[2] /\ c[2] < MAP_HEIGHT
  /\ M[c[2]][c[1]] = 0
  /\ \A j \in 1 .. Len(es) : GridCell(es[j].x, es[j].y) # c
  /\ LET centre == TileCentre(c[1], c[2])
     IN Len(a_star_pathfinding(M, centre[1], centre[2], p.x, p.y,
                               DEFAULT_MAX_ITERATIONS).path) > 1

\* Lines 1529-1554: the enemy spawned in cell c.
SpawnAt(c, enemy_type, route) ==
  NewEnemy(TileCentre(c[1], c[2])[1], TileCentre(c[1], c[2])[2], enemy_type, route)

\* The cells the second enemy of a pair is spawned in: one beyond
\* COORDINATION_RANGE of the cell <<3, 1>> and one just within it.
AllyCells == {<<1, 3>>, <<3, 3>>}

\* An enemy that was hit and has sat out its hit stun: take_damage (lines
\* 1103-1113) and then lines 783-785 of Enemy.update until hit_effect is 0.
Recovered(e) == [take_damage(e) EXCEPT !.hit_effect = 0]

\* The enemy lists the game is taken up with: any one enemy, or a scout and
\* a ranged enemy within or beyond COORDINATION_RANGE of it, or a scout that
\* was hit on patrol and has recovered.
LineUps(M, p) ==
  { <<SpawnAt(c, t, route)>> :
      <<c, t, route>> \in {q \in SpawnCells \X EnemyTypes \X PatrolRoutes :
                             SpawnCellOK(M, q[1], <<>>, p)} }
  \cup
  { <<SpawnAt(c1, "scout", r1), SpawnAt(c2, "ranged", r2)>> :
      <<c1, c2, r1, r2>> \in
        {q \in SpawnCells \X AllyCells \X PatrolRoutes \X PatrolRoutes :
           /\ q[1] = <<3, 1>> /\ q[3] # q[4]
           /\ q[3][1] = TileCentre(3, 1)
           /\ SpawnCellOK(M, q[1], <<>>, p)
           /\ SpawnCellOK(M, q[2], <<SpawnAt(q[1], "scout", q[3])>>, p)} }
  \cup
  { <<Recovered(SpawnAt(c, "scout", route))>> :
      <<c, route>> \in {q \in SpawnCells \X PatrolRoutes :
                         /\ q[1] = <<3, 1>> /\ q[2][1] = TileCentre(3, 1)
                         /\ SpawnCellOK(M, q[1], <<>>, p)} }

InitEnemy ==
  /\ MAP = GridOf(WorldWalls)
  /\ player \in StartPlayers(MAP)
  /\ enemies \in LineUps(MAP, player)
  /\ start_x = 0 /\ start_y = 0 /\ goal_x = 0 /\ goal_y = 0
  /\ max_iterations = DEFAULT_MAX_ITERATIONS
  /\ astar = NewCall
  /\ NoGame
  /\ last = Idle
  /\ steps = 0

Keys == {"w", "s"}

\* main (line 2827): player.update(keys, mouse_dx) with one movement key held.
PlayerUpdate ==
  /\ steps < MaxSteps
  /\ steps' = steps + 1
  /\ \E key \in Keys :
       /\ player' = PlayerStep(MAP, player, key)
       /\ last' = [op |-> "player", key |-> key, before |-> player]
  /\ UNCHANGED <<MAP, start_x, start_y, goal_x, goal_y, max_iterations, astar, enemies, manager, gun, frame>>

\* EnemyManager.update (line 1408): enemy.update(player, self.enemies) of one
\* enemy of the list.
EnemyUpdate ==
  /\ steps < MaxSteps
  /\ steps' = steps + 1
  /\ \E i \in 1 .. Len(enemies) :
       \E player_in_sight \in IF enemies[i].hit_effect > 0 THEN {FALSE}
                              ELSE _can_see_player(MAP, enemies[i], player) :
         \E did \in {Update(MAP, enemies, i, player, player_in_sight)} :
            /\ enemies' = did.enemies
            /\ last' = [op |-> "update", who |-> i, before |-> enemies,
                        stunned |-> did.stunned,
                        player_in_sight |-> player_in_sight,
                        should_update_path |-> did.plan.should_update_path,
                        called |-> did.plan.called,
                        returned |-> did.plan.returned,
                        raised |-> did.plan.raised,
                        attacking |-> did.attacking]
  /\ UNCHANGED <<MAP, start_x, start_y, goal_x, goal_y, max_iterations, astar, player, manager, gun, frame>>

\* EnemyManager.update (lines 1417-1455): a shot that passes the hit test on
\* one enemy; the player's aim and the gun are free.
EnemyHit ==
  /\ steps < MaxSteps
  /\ steps' = steps + 1
  /\ \E i \in 1 .. Len(enemies) :
       /\ Dist2(enemies[i].x, enemies[i].y, player.x, player.y)
            < (TILE_SIZE * 8) * (TILE_SIZE * 8)
       /\ LET hurt == take_damage(enemies[i])
              enemy_killed == hurt.hp <= 0
          IN /\ enemies' = IF enemy_killed THEN Remove(enemies, i)
                           ELSE [enemies EXCEPT ![i] = hurt]
             /\ last' = [op |-> "hit", who |-> i, before |-> enemies,
                         enemy_killed |-> enemy_killed]
  /\ UNCHANGED <<MAP, start_x, start_y, goal_x, goal_y, max_iterations, astar, player, manager, gun, frame>>

NextEnemy == PlayerUpdate \/ EnemyUpdate \/ EnemyHit

SpecEnemy == InitEnemy /\ [][NextEnemy]_vars

\* ------------------------------------------------------- Enemy._move alone
\* Enemy._move on its own, from every placement of an enemy in a cell that
\* is no wall with one waypoint ahead of it: the centre of any cell of the
\* grid, walls and border included.  (In play the waypoints come from the
\* pathfinder, whose paths lead through free cells only.)
Offsets == {2, TILE_SIZE \div 2, TILE_SIZE - 2}
EnemyStates == {"PATROL", "ALERT", "SEARCH", "ATTACK"}

Placed(M) ==
  { [NewEnemy(c[1] * TILE_SIZE + o[1], c[2] * TILE_SIZE + o[2], t,
              <<TileCentre(c[1], c[2]), TileCentre(w[1], w[2])>>)
       EXCEPT !.state = st, !.path = <<TileCentre(w[1], w[2])>>] :
      <<c, o, t, st, w>> \in
        {q \in Interior \X (Offsets \X Offsets) \X EnemyTypes \X EnemyStates
                 \X (CellsX \X CellsY) : M[q[1][2]][q[1][1]] = 0} }

InitMove ==
  /\ MAP = GridOf(WorldWalls)
  /\ player = Player(3, 3)
  /\ enemies \in {<<e>> : e \in Placed(MAP)}
  /\ start_x = 0 /\ start_y = 0 /\ goal_x = 0 /\ goal_y = 0
  /\ max_iterations = DEFAULT_MAX_ITERATIONS
  /\ astar = NewCall
  /\ NoGame
  /\ last = Idle
  /\ steps = 0

\* Enemy.update (line 797): self._move().
EnemyMove ==
  /\ steps < MaxSteps
  /\ steps' = steps + 1
  /\ enemies' = [enemies EXCEPT ![1] = _move(MAP, @)]
  /\ last' = [op |-> "move", who |-> 1, before |-> enemies,
              request |-> MoveRequest(enemies[1])]
  /\ UNCHANGED <<MAP, start_x, start_y, goal_x, goal_y, max_iterations, astar, player, manager, gun, frame>>

SpecMove == InitMove /\ [][EnemyMove]_vars

\* ----------------------------------------------- Enemy._can_see_player alone
\* Enemy._can_see_player on its own, in an enclosed room of SightW by SightH
\* cells with one wall cell inside, for an enemy and a player placed near
\* the corners of any two cells that are no wall; the player also a little
\* off the corner, which takes the ray off the diagonal of the grid.
SightOffsets == {2, TILE_SIZE - 2}
PlayerOffsets == {2, 6, TILE_SIZE - 2}

SightSpots(M, offsets) ==
  { <<c[1] * TILE_SIZE + o[1], c[2] * TILE_SIZE + o[2]>> :
      <<c, o>> \in {q \in InteriorOf(SightW, SightH) \X (offsets \X offsets) :
                      M[q[1][2]][q[1][1]] = 0} }

InitSight ==
  /\ MAP \in {Room(SightW, SightH, {w}) : w \in InteriorOf(SightW, SightH)}
  /\ \E at \in SightSpots(MAP, PlayerOffsets) : player = [x |-> at[1], y |-> at[2]]
  /\ \E at \in SightSpots(MAP, SightOffsets) :
       enemies = <<NewEnemy(at[1], at[2], "scout", <<at, at>>)>>
  /\ start_x = 0 /\ start_y = 0 /\ goal_x = 0 /\ goal_y = 0
  /\ max_iterations = DEFAULT_MAX_ITERATIONS
  /\ astar = NewCall
  /\ NoGame
  /\ last = Idle
  /\ steps = 0

\* Enemy.update (line 788): player_in_sight = self._can_see_player(player).
Look ==
  /\ last = Idle
  /\ \E player_in_sight \in _can_see_player(MAP, enemies[1], player) :
       last' = [op |-> "look", who |-> 1, before |-> enemies,
                player_in_sight |-> player_in_sight]
  /\ UNCHANGED <<MAP, start_x, start_y, goal_x, goal_y, max_iterations, astar,
                 player, enemies, steps, manager, gun, frame>>

SpecSight == InitSight /\ [][Look]_vars

\* ------------------------------------------------------------------ the Gun
\* Gun.__init__ (lines 406-413); recoil and muzzle flash are drawing only.
NewGun ==
  [firing |-> FALSE, cooldown |-> 0, ammo |-> WEAPON_MAX_AMMO,
   reloading |-> FALSE, reload_timer |-> 0]

\* Gun.fire (lines 468-490).
Gun_fire(g) ==
  IF g.cooldown = 0 /\ ~g.reloading
  THEN IF g.ammo > 0
       THEN [g EXCEPT !.firing = TRUE, !.cooldown = WEAPON_FIRE_COOLDOWN,
                      !.ammo = @ - 1]
       ELSE [g EXCEPT !.cooldown = WEAPON_FIRE_COOLDOWN \div 2]
  ELSE g

\* Lines 505-509 of Gun.update: the cooldown, and the end of firing.
CoolDown(g) ==
  IF g.cooldown > 0
  THEN [g EXCEPT !.cooldown = @ - 1, !.firing = IF g.cooldown = 1 THEN FALSE ELSE @]
  ELSE g

\* Lines 515-521 of Gun.update: reloading.
Reload(g) ==
  IF g.reloading
  THEN IF g.reload_timer - 1 <= 0
       THEN [g EXCEPT !.reload_timer = @ - 1, !.ammo = WEAPON_MAX_AMMO,
                      !.reloading = FALSE]
       ELSE [g EXCEPT !.reload_timer = @ - 1]
  ELSE g

\* Gun.update (lines 499-521).
Gun_update(g) == Reload(CoolDown(g))

\* ------------------------------------------------------------ EnemyManager
\* An enemy object is named by the field id (its identity in the source);
\* cluster['enemies'] holds the ids of its members.

\* Player.__init__ (lines 551-560) as main creates it (lines 2753, 2791),
\* with the fields the manager reads and writes.
NewPlayer == Player(3, 3) @@ [health |-> PLAYER_MAX_HEALTH, score |-> 0]

\* Player.take_damage (lines 562-565).
Player_take_damage(p, damage) == [p EXCEPT !.health = @ - damage]

\* The cell _generate_patrol_clusters (lines 1350-1351) draws the centres
\* from: in a room of seven cells a side random.randint(3, MAP_WIDTH - 4)
\* is 3.
ClusterCentre == <<3, 3>>

\* Lines 1378-1383: a cluster with no member yet.
NewCluster(id, points) ==
  [id |-> id, points |-> points,
   center |-> TileCentre(ClusterCentre[1], ClusterCentre[2]), enemies |-> <<>>]

\* EnemyManager.__init__ (lines 1328-1337) with the clusters generated.
NewManager(patrol_clusters) ==
  [patrol_clusters |-> patrol_clusters, spawn_cooldown |-> ENEMY_SPAWN_COOLDOWN,
   spawn_attempts |-> 0]

\* The place in the list es of the enemy object id; 0 if it is not there.
IndexOf(es, id) ==
  IF \E i \in 1 .. Len(es) : es[i].id = id
  THEN CHOOSE i \in 1 .. Len(es) : es[i].id = id
  ELSE 0

\* list.remove(item): the list without the first item equal to it.
RemoveItem(list, item) ==
  IF \E i \in 1 .. Len(list) : list[i] = item
  THEN Remove(list, CHOOSE i \in 1 .. Len(list) :
                      list[i] = item /\ \A j \in 1 .. i - 1 : list[j] # item)
  ELSE list

\* Lines 1417-1438: the hit test of the enemy e, for a player who faces along
\* the x axis (angle 0, as created): nearer than 8 tiles and less than
\* HALF_FOV * 1.2 = 36 degrees off the player's facing.  tan 36 degrees is
\* held in millionths.
TAN_HIT_ANGLE == 726543
InHitCone(e, p) ==
  /\ Dist2(e.x, e.y, p.x, p.y) < (TILE_SIZE * 8) * (TILE_SIZE * 8)
  /\ \/ e.x - p.x > 0 /\ Abs(e.y - p.y) * 1000000 < TAN_HIT_ANGLE * (e.x - p.x)
     \/ e.x = p.x /\ e.y = p.y

\* Lines 1443-1448: the clusters once the enemy e is taken off the member
\* list of the first cluster with its cluster_id.  An enemy's cluster_id is
\* None (line 673) until spawn_enemy sets it; the model's enemy has the
\* field from then on.
LeaveCluster(patrol_clusters, e) ==
  IF "cluster_id" \notin DOMAIN e \/ ~\E c \in 1 .. Len(patrol_clusters) :
                                        patrol_clusters[c].id = e.cluster_id
  THEN patrol_clusters
  ELSE LET c == CHOOSE c \in 1 .. Len(patrol_clusters) :
                  /\ patrol_clusters[c].id = e.cluster_id
                  /\ \A b \in 1 .. c - 1 : patrol_clusters[b].id # e.cluster_id
       IN [patrol_clusters EXCEPT ![c].enemies = RemoveItem(@, e.id)]

\* Lines 1441-1455 with the cluster's member list left as it is.
KilledStaysInCluster(w, i) ==
  [w EXCEPT !.enemies = Remove(@, i),
            !.player.score = @ + 100,
            !.killed = Append(@, w.enemies[i].id)]

\* Lines 1441-1455: the enemy at place i was killed.
Killed(w, i) ==
  [w EXCEPT !.patrol_clusters = LeaveCluster(@, w.enemies[i]),
            !.enemies = Remove(@, i),
            !.player.score = @ + 100,
            !.killed = Append(@, w.enemies[i].id)]

\* Lines 1417-1455: the shot at the enemy at place i while the gun fires.
Shot(w, i) ==
  IF InHitCone(w.enemies[i], w.player)
  THEN LET hurt == [w EXCEPT !.enemies[i] = take_damage(@),
                             !.hits = Append(@, w.enemies[i].id)]
       IN IF hurt.enemies[i].hp <= 0 THEN Killed(hurt, i) ELSE hurt
  ELSE w

\* Lines 1408-1455, the body of the loop for the enemy at place i, given what
\* its _can_see_player answers.  w holds what the loop works on: the enemy
\* list, the player and the clusters, and notes the enemies hit and killed.
ProcessEnemy(M, w, i, firing, player_in_sight) ==
  LET did == Update(M, w.enemies, i, w.player, player_in_sight)
      updated == [w EXCEPT !.enemies = did.enemies]
      attacked == IF did.attacking
                  THEN [updated EXCEPT
                          !.player = Player_take_damage(@, TypeStats(w.enemies[i].enemy_type).damage)]
                  ELSE updated
  IN IF firing THEN Shot(attacked, i) ELSE attacked

\* Lines 1406-1455: the loop over the copy of the enemy list, from its k-th
\* item on; the set of outcomes.
RECURSIVE ProcessEnemies(_, _, _, _, _)
ProcessEnemies(M, w, copy, k, firing) ==
  IF k > Len(copy) THEN {w}
  ELSE LET i == IndexOf(w.enemies, copy[k])
       IN UNION { ProcessEnemies(M, ProcessEnemy(M, w, i, firing, player_in_sight),
                                 copy, k + 1, firing) :
                  player_in_sight \in IF w.enemies[i].hit_effect > 0 THEN {FALSE}
                                      ELSE _can_see_player(M, w.enemies[i], w.player) }

\* Along one axis, how far the coordinate v lies from the cell that starts
\* at lo.
Gap(lo, v) ==
  IF v < lo THEN lo - v
  ELSE IF v >= lo + TILE_SIZE THEN v - (lo + TILE_SIZE)
  ELSE 0

\* Lines 1497-1507: can an offset of up to CLUSTER_RADIUS * 1.5 tiles from
\* center fall in the cell c?
WithinSpawnReach(center, c) ==
  LET gx == Gap(c[1] * TILE_SIZE, center[1])
      gy == Gap(c[2] * TILE_SIZE, center[2])
  IN 4 * (gx * gx + gy * gy)
       <= (3 * CLUSTER_RADIUS * TILE_SIZE) * (3 * CLUSTER_RADIUS * TILE_SIZE)

\* Lines 1524-1530: the cell's corner is more than 3 tiles from the player.
FarFromPlayer(c, p) ==
  Dist2(c[1] * TILE_SIZE, c[2] * TILE_SIZE, p.x, p.y) > (TILE_SIZE * 3) * (TILE_SIZE * 3)

\* Lines 1497-1540: the cells an attempt can settle on.
SpawnSpots(M, cluster, es, p) ==
  {c \in CellsX \X CellsY :
     /\ WithinSpawnReach(cluster.center, c)
     /\ FarFromPlayer(c, p)
     /\ SpawnCellOK(M, c, es, p)}

\* Lines 1542-1551: the types random.choices draws from.
SpawnTypes == {"scout", "tank", "ranged"}

\* An identity that no enemy of the list has, nor any of the enemies killed
\* in this update, which the loop's copy of the list still holds.
FreshId(es, killed) ==
  CHOOSE n \in 1 .. Len(es) + Len(killed) + 1 :
    /\ \A i \in 1 .. Len(es) : es[i].id # n
    /\ \A k \in 1 .. Len(killed) : killed[k] # n

\* Lines 1553-1567: the enemy created in cell c for the cluster, with the
\* cluster's patrol points and the path to the first of them.
Spawned(M, c, enemy_type, cluster, id) ==
  LET at == TileCentre(c[1], c[2])
      target == cluster.points[1]
  IN [NewEnemy(at[1], at[2], enemy_type, cluster.points) EXCEPT
        !.path = a_star_pathfinding(M, at[1], at[2], target[1], target[2],
                                    DEFAULT_MAX_ITERATIONS).path]
     @@ [cluster_id |-> cluster.id, id |-> id]

\* Lines 1553-1575: the clusters and the enemy list after a spawn in cell c
\* for the cluster at place k.
SpawnInto(M, patrol_clusters, es, k, c, enemy_type, id) ==
  LET new_enemy == Spawned(M, c, enemy_type, patrol_clusters[k], id)
  IN [spawned |-> TRUE,
      patrol_clusters |-> [patrol_clusters EXCEPT ![k].enemies = Append(@, new_enemy.id)],
      enemies |-> Append(es, new_enemy)]

\* spawn_enemy without the test of lines 1482-1483: full clusters are chosen
\* from too.
SpawnInFullClusters(M, patrol_clusters, es, p, id) ==
  LET available_clusters == 1 .. Len(patrol_clusters)
      failed == [spawned |-> FALSE, patrol_clusters |-> patrol_clusters, enemies |-> es]
  IN {failed} \cup
     { SpawnInto(M, patrol_clusters, es, q[1], q[2], q[3], id) :
         q \in {r \in available_clusters \X (CellsX \X CellsY) \X SpawnTypes :
                  r[2] \in SpawnSpots(M, patrol_clusters[r[1]], es, p)} }

\* EnemyManager.spawn_enemy (lines 1480-1580): the set of outcomes.  The
\* cluster, the cell and the type are drawn at random; thirty attempts that
\* all fall on cells that will not do fail.  id is the new object's identity.
spawn_enemy(M, patrol_clusters, es, p, id) ==
  LET available_clusters == {k \in 1 .. Len(patrol_clusters) :
                               Len(patrol_clusters[k].enemies) < MAX_CLUSTER_SIZE}
      failed == [spawned |-> FALSE, patrol_clusters |-> patrol_clusters, enemies |-> es]
  IN {failed} \cup
     { SpawnInto(M, patrol_clusters, es, q[1], q[2], q[3], id) :
         q \in {r \in available_clusters \X (CellsX \X CellsY) \X SpawnTypes :
                  r[2] \in SpawnSpots(M, patrol_clusters[r[1]], es, p)} }

\* Lines 1468-1478: the counters after a spawn that failed.
SpawnFailed(mgr) ==
  LET spawn_attempts == mgr.spawn_attempts + 1
  IN IF spawn_attempts > 3
     THEN [mgr EXCEPT !.spawn_cooldown = ENEMY_SPAWN_COOLDOWN \div 3,
                      !.spawn_attempts = IF spawn_attempts > 5 THEN 0 ELSE spawn_attempts]
     ELSE [mgr EXCEPT !.spawn_cooldown = ENEMY_SPAWN_COOLDOWN,
                      !.spawn_attempts = spawn_attempts]

\* Lines 1457-1478: spawning, after the loop has left w; the set of outcomes.
SpawnIfDue(M, mgr, w) ==
  LET counted == [mgr EXCEPT !.spawn_cooldown = @ - 1,
                             !.patrol_clusters = w.patrol_clusters]
      kept == [enemies |-> w.enemies, player |-> w.player, manager |-> counted,
               hits |-> w.hits, killed |-> w.killed, spawned |-> FALSE]
  IN IF counted.spawn_cooldown <= 0 /\ Len(w.enemies) < MAX_ENEMIES
     THEN { IF s.spawned
            THEN [kept EXCEPT !.enemies = s.enemies, !.spawned = TRUE,
                              !.manager = [counted EXCEPT
                                             !.patrol_clusters = s.patrol_clusters,
                                             !.spawn_cooldown = ENEMY_SPAWN_COOLDOWN,
                                             !.spawn_attempts = 0]]
            ELSE [kept EXCEPT !.manager = SpawnFailed(counted)]
            : s \in spawn_enemy(M, w.patrol_clusters, w.enemies, w.player,
                                 FreshId(w.enemies, w.killed)) }
     ELSE {kept}

\* EnemyManager.update (lines 1404-1478): the set of outcomes.
EnemyManager_update(M, mgr, es, p, g) ==
  UNION { SpawnIfDue(M, mgr, w) :
          w \in ProcessEnemies(M, [enemies |-> es, player |-> p,
                                   patrol_clusters |-> mgr.patrol_clusters,
                                   hits |-> <<>>, killed |-> <<>>],
                               [i \in 1 .. Len(es) |-> es[i].id], 1, g.firing) }

\* ---------------------------------------------------------------- cast_rays
\* The player faces along the x axis (angle 0, as created).  A ray's
\* direction is held as a vector of whole numbers within 0.03 degrees of
\* its angle start_angle + ray / RAY_COUNT * FOV (lines 1883-1888): -30,
\* -15, 0 and 15 degrees for the four rays of the model's screen.
RayDirections == << <<26, -15>>, <<56, -15>>, <<1, 0>>, <<56, 15>> >>
RAY_COUNT == Len(RayDirections)
ray_dir(ray) == RayDirections[ray + 1]

\* The model's screen: four columns to a ray, as in the source (800 columns
\* and 200 rays, lines 50-59).
WALL_STRIP_WIDTH == (SCREEN_WIDTH + RAY_COUNT - 1) \div RAY_COUNT

\* An entry of z_buffer, in tiles: float('inf') (line 1878), MAX_DEPTH (line
\* 2029), or the perp_wall_dist of lines 1945-1948, n / (TILE_SIZE * v / l)
\* for a ray of direction v along the side it hit and of length l, held as
\* n, v and l2 = l * l.
Inf == [kind |-> "inf", n |-> 0, v |-> 1, l2 |-> 1]
NoHit == [kind |-> "max", n |-> 0, v |-> 1, l2 |-> 1]
WallAt(n, v, l2) == [kind |-> "wall", n |-> n, v |-> v, l2 |-> l2]

\* Lines 1920-1940: the march of the ray dir from cell (map_x, map_y); the
\* set of entries it can leave in z_buffer.
RECURSIVE RayMarch(_, _, _, _, _, _, _)
RayMarch(M, p, dir, map_x, map_y, nx, ny) ==
  UNION {
    LET step_x == IF dir[1] >= 0 THEN 1 ELSE -1
        step_y == IF dir[2] >= 0 THEN 1 ELSE -1
        new_x == IF step_in_x THEN map_x + step_x ELSE map_x
        new_y == IF step_in_x THEN map_y ELSE map_y + step_y
        l2 == dir[1] * dir[1] + dir[2] * dir[2]
    IN IF ~(0 <= new_x /\ new_x < MAP_WIDTH /\ 0 <= new_y /\ new_y < MAP_HEIGHT)
       THEN {NoHit}
       ELSE IF M[new_y][new_x] > 0
       THEN {IF step_in_x
             THEN WallAt(new_x * TILE_SIZE - p.x + (1 - step_x) * (TILE_SIZE \div 2),
                         dir[1], l2)
             ELSE WallAt(new_y * TILE_SIZE - p.y + (1 - step_y) * (TILE_SIZE \div 2),
                         dir[2], l2)}
       ELSE RayMarch(M, p, dir, new_x, new_y,
                     IF step_in_x THEN nx + TILE_SIZE ELSE nx,
                     IF step_in_x THEN ny ELSE ny + TILE_SIZE)
    : step_in_x \in SideXCloser(nx, ny, dir[1], dir[2])}

\* Lines 1881-2029, one ray of the loop: the entries it can write.
Ray(M, p, ray) ==
  LET dir == ray_dir(ray)
      map_x == IntTrunc(p.x, TILE_SIZE)
      map_y == IntTrunc(p.y, TILE_SIZE)
      nx == IF dir[1] < 0 THEN p.x - map_x * TILE_SIZE ELSE (map_x + 1) * TILE_SIZE - p.x
      ny == IF dir[2] < 0 THEN p.y - map_y * TILE_SIZE ELSE (map_y + 1) * TILE_SIZE - p.y
  IN RayMarch(M, p, dir, map_x, map_y, nx, ny)

\* The test of line 2106 with every sprite let through.
BehindCloser(d2, z) == TRUE

\* Line 2106: sprite_dist / TILE_SIZE < z_buffer[ray_idx], for a sprite at
\* the squared distance d2.
Closer(d2, z) ==
  CASE z.kind = "inf" -> TRUE
    [] z.kind = "max" -> d2 < (MAX_DEPTH * TILE_SIZE) * (MAX_DEPTH * TILE_SIZE)
    [] OTHER -> z.n * z.v > 0 /\ d2 * z.v * z.v < z.n * z.n * z.l2

\* tan(m * FOV / (2 * SCREEN_WIDTH) degrees) in millionths for m = 0 .. 24:
\* the angles, up to HALF_FOV * 1.5, at which a sprite's edge passes from one
\* half column of the screen to the next.
TAN_HALF_COLUMNS ==
  <<0, 32737, 65543, 98491, 131652, 165101, 198912, 233167, 267949, 303347,
    339454, 376373, 414214, 453094, 493145, 534511, 577350, 621840, 668179,
    716590, 767327, 820679, 876976, 936602, 1000000>>
TanHalfColumns(m) == IF m >= 0 THEN TAN_HALF_COLUMNS[m + 1] ELSE -TAN_HALF_COLUMNS[1 - m]
MaxHalfColumns == Len(TAN_HALF_COLUMNS) - 1

\* floor(sprite_angle / FOV_RAD * 2 * SCREEN_WIDTH) for the sprite at (dx, dy)
\* from the player, dx > 0 and |dy| <= dx.
FloorHalfColumns(dx, dy) ==
  CHOOSE m \in -MaxHalfColumns .. MaxHalfColumns :
    /\ TanHalfColumns(m) * dx <= dy * 1000000
    /\ m = MaxHalfColumns \/ TanHalfColumns(m + 1) * dx > dy * 1000000

\* Lines 2064-2085: the sprite of the enemy at (dx, dy) from the player:
\* skipped, or its size and the columns sprite_left .. sprite_right - 1.  A
\* sprite at the player's own position divides by zero (line 2073).
Sprite(dx, dy) ==
  LET d2 == dx * dx + dy * dy
      sprite_size == Min(SCREEN_HEIGHT,
                         ISqrt(((SCREEN_HEIGHT * TILE_SIZE) * (SCREEN_HEIGHT * TILE_SIZE)) \div d2))
      down == SCREEN_WIDTH - sprite_size + FloorHalfColumns(dx, dy)
      up == SCREEN_WIDTH - sprite_size - FloorHalfColumns(dx, -dy)
      sprite_left == IF down >= 0 THEN IntTrunc(down, 2) ELSE IntTrunc(up, 2)
  IN IF d2 > (MAX_DEPTH * TILE_SIZE) * (MAX_DEPTH * TILE_SIZE)
     THEN [kind |-> "skipped", sprite_dist2 |-> d2]
     ELSE IF d2 = 0
     THEN [kind |-> "raised", sprite_dist2 |-> d2]
     ELSE IF ~(dx > 0 /\ Abs(dy) <= dx)
     THEN [kind |-> "skipped", sprite_dist2 |-> d2]
     ELSE [kind |-> "drawn", sprite_dist2 |-> d2, sprite_size |-> sprite_size,
           sprite_top |-> Max(0, SCREEN_HEIGHT \div 2 - sprite_size \div 2),
           sprite_bottom |-> Min(SCREEN_HEIGHT, SCREEN_HEIGHT \div 2 + sprite_size \div 2),
           sprite_left |-> Max(0, sprite_left),
           sprite_right |-> Min(SCREEN_WIDTH, sprite_left + sprite_size)]

\* Lines 2108-2125: the columns of the strip blitted at screen column x that
\* get a pixel of the sprite.  set_at((0, y), color) fills the strip's first
\* column, over the strip's height, where tex_x lies within the scaled
\* sprite (and the sprite's image is not transparent there, as taken here).
StripColumns(sprite, x) ==
  LET tex_x == ((x - sprite.sprite_left) * TILE_SIZE) \div sprite.sprite_size
      strip_height == sprite.sprite_bottom - sprite.sprite_top
  IN IF tex_x < sprite.sprite_size /\ strip_height > 0 THEN {0} ELSE {}

\* Lines 2100-2128: the columns the sprite is tested in, each with its ray,
\* and the screen columns its strips put pixels in.
Columns(sprite, z_buffer) ==
  LET tested == { [x |-> x, ray_idx |-> IntTrunc(x, WALL_STRIP_WIDTH)] :
                  x \in sprite.sprite_left .. sprite.sprite_right - 1 }
      passed == { t \in tested :
                    /\ 0 <= t.ray_idx /\ t.ray_idx < Cardinality(DOMAIN z_buffer)
                    /\ Closer(sprite.sprite_dist2, z_buffer[t.ray_idx]) }
  IN [tested |-> tested,
      blits |-> {t.x : t \in passed},
      pixels |-> UNION { {t.x + c : c \in StripColumns(sprite, t.x)} : t \in passed }]

\* Lines 2036-2046: the places in the list far to near; list.sort keeps the
\* list's order among equals.
FarToNear(es, p) ==
  CHOOSE order \in [1 .. Len(es) -> 1 .. Len(es)] :
    /\ \A a, b \in 1 .. Len(es) : a # b => order[a] # order[b]
    /\ \A a, b \in 1 .. Len(es) :
         a < b =>
           LET da == Dist2(es[order[a]].x, es[order[a]].y, p.x, p.y)
               db == Dist2(es[order[b]].x, es[order[b]].y, p.x, p.y)
           IN da > db \/ (da = db /\ order[a] < order[b])

\* Lines 2031-2128: what is drawn of each enemy, far to near.
SpritesOf(es, p, z_buffer) ==
  [k \in 1 .. Len(es) |->
     LET i == FarToNear(es, p)[k]
         sprite == Sprite(es[i].x - p.x, es[i].y - p.y)
     IN [who |-> i, x |-> es[i].x, y |-> es[i].y, sprite |-> sprite,
         columns |-> IF sprite.kind = "drawn" THEN Columns(sprite, z_buffer)
                     ELSE [tested |-> {}, blits |-> {}, pixels |-> {}]]]

\* ------------------------------------------------------------ the whole game
\* main's PLAYING frames (lines 2815-2911) in a room of GameW by GameH cells:
\* a corridor along the row the player starts in, with a side room at its
\* end, one cell before it and the cell of the cluster centres below it.
GameFree == {<<2, 2>>, <<3, 2>>, <<4, 2>>, <<5, 2>>, <<5, 1>>, <<5, 3>>, <<3, 3>>}
GameMap == Room(GameW, GameH, InteriorOf(GameW, GameH) \ GameFree)

\* The cluster lists _generate_patrol_clusters (lines 1338-1402) is taken to
\* have left: both clusters, or the second alone (the first found no two
\* valid points).  The points lie 0.5 to CLUSTER_RADIUS tiles from the centre.
ClusterLists ==
  { << NewCluster(0, <<TileCentre(3, 2), TileCentre(4, 2)>>),
       NewCluster(1, <<TileCentre(4, 2), TileCentre(2, 2)>>) >>,
    << NewCluster(1, <<TileCentre(3, 2), TileCentre(2, 2)>>) >> }

\* main, lines 2787-2799: the objects of a new game.
\* began notes the enemy list as the frame began (an observation).
NewFrame ==
  [game_state |-> "PLAYING", pc |-> "input", ray |-> 0, z_buffer |-> <<>>,
   sprites |-> <<>>, began |-> <<>>]

InitGame ==
  /\ MAP = GameMap
  /\ player = NewPlayer
  /\ gun = NewGun
  /\ enemies = <<>>
  /\ manager \in {NewManager(patrol_clusters) : patrol_clusters \in ClusterLists}
  /\ frame = NewFrame
  /\ start_x = 0 /\ start_y = 0 /\ goal_x = 0 /\ goal_y = 0
  /\ max_iterations = DEFAULT_MAX_ITERATIONS
  /\ astar = NewCall
  /\ last = Idle
  /\ steps = 0

\* The movement keys held in a frame; "none" is no key.
GameKeys == {"none", "w", "s"}

\* main, lines 2815-2830: the space bar fires the gun, player.update,
\* gun.update.
FrameInput ==
  /\ frame.game_state = "PLAYING" /\ frame.pc = "input"
  /\ steps < MaxFrames
  /\ steps' = steps + 1
  /\ \E key \in GameKeys, space \in BOOLEAN :
       /\ player' = PlayerStep(MAP, player, key)
       /\ gun' = Gun_update(IF space THEN Gun_fire(gun) ELSE gun)
       /\ last' = [op |-> "input", key |-> key, space |-> space]
  /\ frame' = [frame EXCEPT !.pc = "enemies", !.began = enemies]
  /\ UNCHANGED <<MAP, start_x, start_y, goal_x, goal_y, max_iterations, astar,
                 enemies, manager>>

\* main, lines 2832-2841: enemy_manager.update(player, gun) and the check
\* for the player's death.
FrameEnemies ==
  /\ frame.pc = "enemies"
  /\ \E did \in EnemyManager_update(MAP, manager, enemies, player, gun) :
       /\ enemies' = did.enemies
       /\ player' = did.player
       /\ manager' = did.manager
       /\ frame' = [frame EXCEPT !.pc = "cast",
                                 !.game_state = IF did.player.health <= 0
                                                THEN "GAME_OVER" ELSE @]
       /\ last' = [op |-> "manager", before |-> enemies, player |-> player,
                   patrol_clusters |-> manager.patrol_clusters,
                   spawn_cooldown |-> manager.spawn_cooldown,
                   firing |-> gun.firing,
                   hits |-> did.hits, killed |-> did.killed, spawned |-> did.spawned]
  /\ UNCHANGED <<MAP, start_x, start_y, goal_x, goal_y, max_iterations, astar, gun, steps>>

\* cast_rays with the loop over the rays left out: from the sky and floor
\* straight to the sprites.
CastRaysWithoutRays ==
  /\ frame.pc = "cast"
  /\ frame' = [frame EXCEPT !.pc = "sprites", !.ray = 0,
                            !.z_buffer = [ray \in 0 .. RAY_COUNT - 1 |-> Inf],
                            !.sprites = <<>>]
  /\ last' = [op |-> "cast"]
  /\ UNCHANGED <<MAP, start_x, start_y, goal_x, goal_y, max_iterations, astar,
                 player, enemies, manager, gun, steps>>

\* cast_rays, lines 1843-1878: sky and floor, and z_buffer filled with
\* float('inf').
CastRaysEnter ==
  /\ frame.pc = "cast"
  /\ frame' = [frame EXCEPT !.pc = "rays", !.ray = 0,
                            !.z_buffer = [ray \in 0 .. RAY_COUNT - 1 |-> Inf],
                            !.sprites = <<>>]
  /\ last' = [op |-> "cast"]
  /\ UNCHANGED <<MAP, start_x, start_y, goal_x, goal_y, max_iterations, astar,
                 player, enemies, manager, gun, steps>>

\* cast_rays, lines 1881-2029: one turn of the loop over the rays.
CastRay ==
  /\ frame.pc = "rays"
  /\ \E z \in Ray(MAP, player, frame.ray) :
       frame' = [frame EXCEPT !.z_buffer[frame.ray] = z,
                              !.ray = @ + 1,
                              !.pc = IF frame.ray + 1 < RAY_COUNT THEN "rays" ELSE "sprites"]
  /\ last' = [op |-> "ray", ray |-> frame.ray, z_buffer |-> frame.z_buffer]
  /\ UNCHANGED <<MAP, start_x, start_y, goal_x, goal_y, max_iterations, astar,
                 player, enemies, manager, gun, steps>>

\* cast_rays, lines 2031-2128: the enemies' sprites; a sprite that raises
\* ends the program.
RenderEnemies ==
  /\ frame.pc = "sprites"
  /\ \E sprites \in {SpritesOf(enemies, player, frame.z_buffer)} :
       frame' = [frame EXCEPT !.sprites = sprites,
                              !.pc = IF \E k \in 1 .. Len(sprites) :
                                          sprites[k].sprite.kind = "raised"
                                     THEN "raised" ELSE "present"]
  /\ last' = [op |-> "sprites", enemies |-> enemies, z_buffer |-> frame.z_buffer]
  /\ UNCHANGED <<MAP, start_x, start_y, goal_x, goal_y, max_iterations, astar,
                 player, enemies, manager, gun, steps>>

\* main, line 2911: pygame.display.flip() shows the frame; the loop turns.
Present ==
  /\ frame.pc = "present"
  /\ frame' = [frame EXCEPT !.pc = "input"]
  /\ last' = [op |-> "present"]
  /\ UNCHANGED <<MAP, start_x, start_y, goal_x, goal_y, max_iterations, astar,
                 player, enemies, manager, gun, steps>>

NextRender == CastRaysEnter \/ CastRay \/ RenderEnemies

NextGame == FrameInput \/ FrameEnemies \/ NextRender \/ Present

SpecGame == InitGame /\ [][NextGame]_vars

\* ------------------------------------------------ properties of the enemies
\* The step just taken was Enemy.update of enemy last.who; Self is that
\* enemy now and Before the same enemy when the update began.
Updated == last.op = "update"
Self == enemies[last.who]
Before == last.before[last.who]

\* The update went past the hit-stun test of line 783.
Acted == Updated /\ ~last.stunned

\* C7: when the pathfinder returns the empty path, the update that asked
\* raises no error, ends with an empty path and leaves the enemy where it
\* was; and every later update that finds the path empty re-plans and asks the
\* pathfinder again.  The one update that re-plans without asking is that of
\* a searching enemy with no last known position, which has no target: it
\* counts its search timer up and asks again once the search has timed out.
C7_EmptyPathStayPutAndReplan ==
  Acted =>
    /\ (last.called /\ last.returned = <<>>) =>
         /\ ~last.raised
         /\ Self.path = <<>>
         /\ Self.x = Before.x /\ Self.y = Before.y
    /\ Before.path = <<>> =>
         /\ last.should_update_path
         /\ \/ last.called
            \/ /\ Before.state = "SEARCH" /\ Self.state = "SEARCH"
               /\ Before.last_player_pos = None
               /\ Self.state_timer = Before.state_timer + 1
               /\ Self.state_timer <= SEARCH_DURATION

\* An enemy that was given the empty path on an earlier update asks again
\* and is given the empty path again.
C7_Witness ==
  /\ Acted /\ Before.path = <<>> /\ Before.state_timer > 0
  /\ last.called /\ last.returned = <<>>
  /\ Self.path = <<>> /\ Self.x = Before.x /\ Self.y = Before.y

\* The enemy had line-of-sight when the update began: what _can_see_player
\* answered, or would have answered had the update asked.
HadSight ==
  IF last.stunned THEN TRUE \in _can_see_player(MAP, Before, player)
  ELSE last.player_in_sight

\* C9: an enemy that is in PATROL and has line-of-sight to the player when its
\* update begins is in ATTACK when the update ends, with last_player_pos the
\* player's position.
C9_PatrolSightToAttack ==
  (Updated /\ Before.state = "PATROL" /\ HadSight) =>
    /\ Self.state = "ATTACK"
    /\ Self.last_player_pos = <<player.x, player.y>>

C9_Witness ==
  /\ Acted /\ Before.state = "PATROL" /\ last.player_in_sight
  /\ Self.state = "ATTACK" /\ Self.last_player_pos = <<player.x, player.y>>

\* The update found no line-of-sight.
NoSight == Acted /\ ~last.player_in_sight

\* No update changes the last_player_pos of another enemy that is in SEARCH,
\* and neither does a stunned update or a hit that the enemy survives.
OthersKeepLastPos ==
  /\ Updated =>
        \A j \in 1 .. Len(enemies) :
          (last.before[j].state = "SEARCH" /\ (j # last.who \/ last.stunned)) =>
            /\ enemies[j].state = "SEARCH"
            /\ enemies[j].last_player_pos = last.before[j].last_player_pos
  /\ (last.op = "hit" /\ ~last.enemy_killed /\ last.before[last.who].state = "SEARCH") =>
        /\ enemies[last.who].state = "SEARCH"
        /\ enemies[last.who].last_player_pos = last.before[last.who].last_player_pos

\* C10 as stated: an enemy in ATTACK whose update finds no line-of-sight ends
\* the update in SEARCH, and every update without line-of-sight that begins in
\* ATTACK or SEARCH and does not time the search out leaves last_player_pos
\* as it found it; nothing else changes it while the enemy is in SEARCH.
C10_LastPosKeptUntilReacquiredOrTimeout ==
  /\ (NoSight /\ Before.state = "ATTACK") => Self.state = "SEARCH"
  /\ (NoSight /\ Before.state \in {"ATTACK", "SEARCH"} /\ Self.state = "SEARCH") =>
       Self.last_player_pos = Before.last_player_pos
  /\ OthersKeepLastPos

\* The enemy began the update within one tile of its last known position.
NearLastPos ==
  /\ Before.last_player_pos # None
  /\ Dist2(Before.last_player_pos[1], Before.last_player_pos[2], Before.x, Before.y)
       < TILE_SIZE * TILE_SIZE

\* C10, amended: an enemy in ATTACK whose update finds no line-of-sight ends
\* the update in SEARCH; an update without line-of-sight that begins in ATTACK
\* or SEARCH and ends in SEARCH leaves last_player_pos as it found it, except
\* that it clears last_player_pos when it re-plans with the enemy within one
\* tile of that position; nothing else changes it while the enemy is in SEARCH.
C10_LastPosKeptUntilReached ==
  /\ (NoSight /\ Before.state = "ATTACK") => Self.state = "SEARCH"
  /\ (NoSight /\ Before.state \in {"ATTACK", "SEARCH"} /\ Self.state = "SEARCH") =>
       Self.last_player_pos =
         IF last.called /\ NearLastPos THEN None ELSE Before.last_player_pos
  /\ OthersKeepLastPos

\* An enemy loses sight within one tile of where it last saw the player, on
\* an update that re-plans: it enters SEARCH with no last known position.
C10_Witness ==
  /\ NoSight /\ Before.state = "ATTACK" /\ Self.state = "SEARCH"
  /\ last.called /\ NearLastPos
  /\ Self.last_player_pos = None

\* Enemy j is the same enemy before and after the step just taken, and the
\* step was not a state update of it: another enemy's update, its own update
\* while stunned, or a hit it survives.
NotItsStateUpdate(j) ==
  \/ Updated /\ (j # last.who \/ last.stunned)
  \/ last.op = "hit" /\ ~last.enemy_killed /\ j = last.who

\* C11: a state update of an enemy in SEARCH sends it to ATTACK when it has
\* line-of-sight; without line-of-sight it sends it to PATROL, clearing
\* last_player_pos, exactly when the state timer it counts up exceeds
\* SEARCH_DURATION, and otherwise leaves it in SEARCH with the timer one
\* higher.  The timer counts the state updates since SEARCH was entered: it
\* is 0 on entry, and no other step changes the state or the timer of an
\* enemy in SEARCH.
C11_SearchEndsAtTimeoutOrSight ==
  /\ (Acted /\ Before.state = "SEARCH") =>
       IF last.player_in_sight
       THEN Self.state = "ATTACK"
       ELSE IF Before.state_timer + 1 > SEARCH_DURATION
       THEN Self.state = "PATROL" /\ Self.last_player_pos = None
       ELSE Self.state = "SEARCH" /\ Self.state_timer = Before.state_timer + 1
  /\ Updated =>
       \A j \in 1 .. Len(enemies) :
         (last.before[j].state # "SEARCH" /\ enemies[j].state = "SEARCH") =>
           enemies[j].state_timer = 0
  /\ last.op \in {"update", "hit"} =>
       \A j \in 1 .. Len(enemies) :
         (NotItsStateUpdate(j) /\ last.before[j].state = "SEARCH") =>
           /\ enemies[j].state = "SEARCH"
           /\ enemies[j].state_timer = last.before[j].state_timer

\* A search that began with a last known position times out: the update that
\* counts the timer past SEARCH_DURATION ends in PATROL with the position
\* cleared.
C11_Witness ==
  /\ NoSight /\ Before.state = "SEARCH"
  /\ Before.state_timer = SEARCH_DURATION
  /\ Before.last_player_pos # None
  /\ Self.state = "PATROL" /\ Self.last_player_pos = None

\* The step just taken was an enemy's update or a hit on an enemy; Was is the
\* list of the enemies that are still there, as they were before the step.
OnEnemies == last.op \in {"update", "hit"}
Was ==
  IF last.op = "hit" /\ last.enemy_killed THEN Remove(last.before, last.who)
  ELSE last.before

\* The step just taken changed the state of enemy j to ALERT.
BecameAlert(j) == Was[j].state # "ALERT" /\ enemies[j].state = "ALERT"

\* C12 as stated: every step that changes an enemy's state to ALERT is the
\* update of another enemy, in PATROL, that sighted the player and sent the
\* alert.
C12_AlertOnlyByAllyAlert ==
  OnEnemies =>
    \A j \in 1 .. Len(enemies) :
      BecameAlert(j) =>
        /\ Acted /\ j # last.who
        /\ Before.state = "PATROL" /\ last.player_in_sight

\* C12, amended: every step that changes an enemy's state to ALERT is a hit
\* on that enemy (take_damage) which found it in PATROL; no update, its own
\* or another enemy's, puts an enemy in ALERT.
C12_AlertOnlyByOwnDamage ==
  OnEnemies =>
    \A j \in 1 .. Len(enemies) :
      BecameAlert(j) =>
        /\ last.op = "hit" /\ j = last.who
        /\ Was[j].state = "PATROL"

\* A patrolling enemy is hit, survives and is in ALERT, while another
\* enemy's sighting has alerted an ally straight into ATTACK.
C12_Witness ==
  /\ last.op = "hit" /\ ~last.enemy_killed
  /\ Was[last.who].state = "PATROL" /\ enemies[last.who].state = "ALERT"
  /\ \E j \in 1 .. Len(enemies) : j # last.who /\ enemies[j].state = "ATTACK"

\* The update found a last known position for the state's behaviour to go
\* by: the one the enemy had, or the one the sighting has just given it.
HasLastPos == last.player_in_sight \/ Before.last_player_pos # None

\* The state an enemy leaves ALERT for.
AfterAlert == IF HasLastPos THEN "SEARCH" ELSE "PATROL"

\* No step but its own state update changes the state of an enemy in ALERT,
\* and its timer is 0 when it enters ALERT.
AlertOnlyLeftByStateUpdate ==
  OnEnemies =>
    \A j \in 1 .. Len(enemies) :
      /\ (Was[j].state = "ALERT" /\ (last.op = "hit" \/ j # last.who \/ last.stunned)) =>
           /\ enemies[j].state = "ALERT"
           /\ enemies[j].state_timer = Was[j].state_timer
      /\ BecameAlert(j) => enemies[j].state_timer = 0

\* C13 as stated: a state update of an enemy in ALERT leaves it in ALERT
\* unless the timer it counts up exceeds ALERT_DURATION, and then sends it to
\* SEARCH if there is a last known position and to PATROL otherwise; nothing
\* else takes an enemy out of ALERT.
C13_AlertLeftOnlyAtTimeout ==
  /\ (Acted /\ Before.state = "ALERT") =>
       Self.state = IF Before.state_timer + 1 > ALERT_DURATION THEN AfterAlert
                    ELSE "ALERT"
  /\ AlertOnlyLeftByStateUpdate

\* C13, amended: a state update of an enemy in ALERT leaves it in ALERT
\* unless the timer it counts up exceeds ALERT_DURATION or the update finds
\* no line-of-sight, and then sends it to SEARCH if there is a last known
\* position and to PATROL otherwise; nothing else takes an enemy out of ALERT.
C13_AlertLeftAtTimeoutOrWithoutSight ==
  /\ (Acted /\ Before.state = "ALERT") =>
       Self.state = IF Before.state_timer + 1 > ALERT_DURATION \/ ~last.player_in_sight
                    THEN AfterAlert
                    ELSE "ALERT"
  /\ AlertOnlyLeftByStateUpdate

\* An enemy in ALERT that saw the player on an earlier update loses sight
\* before the timeout and goes to SEARCH at once.
C13_Witness ==
  /\ NoSight /\ Before.state = "ALERT"
  /\ Before.state_timer + 1 <= ALERT_DURATION
  /\ Before.last_player_pos # None
  /\ Self.state = "SEARCH"

\* Enemy j stood within COORDINATION_RANGE tiles of the updated enemy when
\* the update began.
InRange(j) ==
  Dist2(last.before[j].x, last.before[j].y, Before.x, Before.y)
    <= (COORDINATION_RANGE * TILE_SIZE) * (COORDINATION_RANGE * TILE_SIZE)

\* The update was that of an enemy in PATROL that acquired sight of the player.
PatrolSighting == Acted /\ Before.state = "PATROL" /\ last.player_in_sight

\* C14 as stated: when the update of an enemy in PATROL acquires sight, every
\* other enemy within COORDINATION_RANGE of it ends the update in ATTACK with
\* last_player_pos the player's position, whatever state it was in, and every
\* enemy farther away is unchanged.
C14_AllAlliesInRangeAttack ==
  PatrolSighting =>
    \A j \in 1 .. Len(enemies) :
      j # last.who =>
        IF InRange(j)
        THEN /\ enemies[j].state = "ATTACK"
             /\ enemies[j].last_player_pos = <<player.x, player.y>>
        ELSE enemies[j] = last.before[j]

\* C14, amended: when the update of an enemy in PATROL acquires sight, every
\* other enemy that is in PATROL and within COORDINATION_RANGE of it ends the
\* update in ATTACK with its state timer 0 and last_player_pos the player's
\* position, and every other enemy, farther away or in another state, is
\* unchanged.
C14_PatrollingAlliesInRangeAttack ==
  PatrolSighting =>
    \A j \in 1 .. Len(enemies) :
      j # last.who =>
        enemies[j] =
          IF InRange(j) /\ last.before[j].state = "PATROL"
          THEN [last.before[j] EXCEPT !.state = "ATTACK", !.state_timer = 0,
                                      !.last_player_pos = <<player.x, player.y>>]
          ELSE last.before[j]

\* A patrolling enemy sights the player and its patrolling ally within
\* range is in ATTACK with the player's position.
C14_Witness ==
  /\ PatrolSighting
  /\ \E j \in 1 .. Len(enemies) :
       /\ j # last.who /\ InRange(j) /\ last.before[j].state = "PATROL"
       /\ enemies[j].state = "ATTACK"
       /\ enemies[j].last_player_pos = <<player.x, player.y>>

\* The squared attack range of enemy e, in hundredths of squared world units.
Range2(e) ==
  (TILE_SIZE * TypeStats(e.enemy_type).attack_range)
    * (TILE_SIZE * TypeStats(e.enemy_type).attack_range)

\* C15: an update reports an attack only if it went past the hit stun, left
\* the enemy in ATTACK, found the player nearer than attack_range tiles when
\* it began and counted the cooldown down to 0; it then sets the cooldown to
\* max_attack_cooldown.  An update that reports none counts the cooldown down
\* by one, to 0 at the least, and nothing else changes a cooldown: so an
\* attack comes no sooner than max_attack_cooldown updates after the last.
C15_AttackOnlyInAttackInRangeCooled ==
  /\ Updated =>
       /\ last.attacking =>
            /\ ~last.stunned
            /\ Self.state = "ATTACK"
            /\ 100 * Dist2(player.x, player.y, Before.x, Before.y) < Range2(Self)
            /\ Before.attack_cooldown <= 1
            /\ Self.attack_cooldown = TypeStats(Self.enemy_type).max_attack_cooldown
       /\ (Acted /\ ~last.attacking /\ ~last.raised) =>
            Self.attack_cooldown = Max(Before.attack_cooldown - 1, 0)
       /\ last.stunned => Self.attack_cooldown = Before.attack_cooldown
  /\ OnEnemies =>
       \A j \in 1 .. Len(enemies) :
         (last.op = "hit" \/ j # last.who) =>
           enemies[j].attack_cooldown = Was[j].attack_cooldown

\* An enemy attacks again: the update finds the cooldown of its last attack
\* at 1, counts it down and reports an attack.
C15_Witness ==
  /\ Acted /\ last.attacking
  /\ Before.attack_cooldown = 1
  /\ Self.state = "ATTACK"
  /\ Self.attack_cooldown = TypeStats(Self.enemy_type).max_attack_cooldown

\* The cell a position lies in, and whether that cell is in the grid and no
\* wall.
CellOf(x, y) == <<x \div TILE_SIZE, y \div TILE_SIZE>>
FreeCell(c) ==
  /\ 0 <= c[1] /\ c[1] < MAP_WIDTH /\ 0 <= c[2] /\ c[2] < MAP_HEIGHT
  /\ MAP[c[2]][c[1]] = 0

\* Every enemy stands in a cell of the grid that is no wall.
EnemiesInFreeCells ==
  \A j \in 1 .. Len(enemies) : FreeCell(CellOf(enemies[j].x, enemies[j].y))

\* C17: a call of _move whose requested position lies in a wall cell or
\* outside the grid leaves x and y unchanged, and a granted request puts the
\* enemy where it asked to be; so an enemy placed in a cell that is no wall
\* stands in a cell of the grid that is no wall after any number of moves.
C17_MoveIntoWallRejected ==
  /\ (last.op = "move" /\ last.request # None) =>
       IF FreeCell(CellOf(last.request[1], last.request[2]))
       THEN Self.x = last.request[1] /\ Self.y = last.request[2]
       ELSE Self.x = Before.x /\ Self.y = Before.y
  /\ EnemiesInFreeCells

\* An enemy asks to move into a wall cell and stays where it was.
C17_Witness ==
  /\ last.op = "move" /\ last.request # None
  /\ ~FreeCell(CellOf(last.request[1], last.request[2]))
  /\ Self.x = Before.x /\ Self.y = Before.y

\* The grid traversal from the cell of (sx, sy) to the cell of (ex, ey): the
\* cells the segment between the two positions enters, in order, the target
\* cell last.  Where the segment passes through a corner of the grid it may
\* be taken round either side, so the traversals are a set.  Crossings are
\* compared as exact fractions: the segment meets the next line across x
\* after nx / |dx| of its length, the next across y after ny / |dy|.
RECURSIVE TraverseFrom(_, _, _, _, _, _, _, _)
TraverseFrom(cx, cy, tx, ty, nx, ny, dx, dy) ==
  IF cx = tx /\ cy = ty THEN {<<>>}
  ELSE UNION {
         LET ncx == IF in_x THEN cx + (IF dx >= 0 THEN 1 ELSE -1) ELSE cx
             ncy == IF in_x THEN cy ELSE cy + (IF dy >= 0 THEN 1 ELSE -1)
         IN {<<<<ncx, ncy>>>> \o rest :
               rest \in TraverseFrom(ncx, ncy, tx, ty,
                                     IF in_x THEN nx + TILE_SIZE ELSE nx,
                                     IF in_x THEN ny ELSE ny + TILE_SIZE, dx, dy)}
         : in_x \in IF cx = tx THEN {FALSE}
                    ELSE IF cy = ty THEN {TRUE}
                    ELSE IF nx * Abs(dy) = ny * Abs(dx) THEN {TRUE, FALSE}
                    ELSE {nx * Abs(dy) < ny * Abs(dx)} }

Traversals(sx, sy, ex, ey) ==
  LET cx == sx \div TILE_SIZE
      cy == sy \div TILE_SIZE
  IN TraverseFrom(cx, cy, ex \div TILE_SIZE, ey \div TILE_SIZE,
                  IF ex < sx THEN sx - cx * TILE_SIZE ELSE (cx + 1) * TILE_SIZE - sx,
                  IF ey < sy THEN sy - cy * TILE_SIZE ELSE (cy + 1) * TILE_SIZE - sy,
                  ex - sx, ey - sy)

\* Some traversal from the enemy's cell to the player's cell enters no wall
\* cell and no cell outside the grid.
ClearTraversal ==
  \E t \in Traversals(enemies[1].x, enemies[1].y, player.x, player.y) :
    \A k \in 1 .. Len(t) : FreeCell(t[k])

\* The enemy and the player are within sight range of each other and not
\* nearer than a tenth of a tile.
InSightRange ==
  LET d2 == Dist2(player.x, player.y, enemies[1].x, enemies[1].y)
  IN /\ d2 <= (SIGHT_RANGE * TILE_SIZE) * (SIGHT_RANGE * TILE_SIZE)
     /\ 100 * d2 >= TILE_SIZE * TILE_SIZE

\* C18: within sight range and beyond the minimum distance,
\* _can_see_player returns true only if the grid traversal from the enemy's
\* cell to the player's cell crosses no wall cell.
C18_SightOnlyThroughFreeCells ==
  (last.op = "look" /\ InSightRange /\ last.player_in_sight) => ClearTraversal

\* ---------------------------------------------------------- cast_rays alone
\* cast_rays on its own, in the game's room, for a player and one or two
\* enemies placed in the middle or near a corner of any cells that are no
\* wall, the enemies away from the player's own position.
RenderOffsets == {2, TILE_SIZE \div 2, TILE_SIZE - 2}

RenderSpots ==
  { <<c[1] * TILE_SIZE + o[1], c[2] * TILE_SIZE + o[2]>> :
      <<c, o>> \in GameFree \X (RenderOffsets \X RenderOffsets) }

\* One enemy anywhere, or that enemy and a second one in the middle of a
\* cell.
RenderLineUps ==
  { <<NewEnemy(at[1], at[2], "scout", <<at, at>>)>> : at \in RenderSpots }
  \cup
  { <<NewEnemy(at[1], at[2], "scout", <<at, at>>),
      NewEnemy(TileCentre(c[1], c[2])[1], TileCentre(c[1], c[2])[2], "tank",
               <<at, at>>)>> :
      <<at, c>> \in {q \in RenderSpots \X GameFree :
                       q[1][1] = TileCentre(5, 2)[1] /\ q[2][1] = 5} }

InitRender ==
  /\ MAP = GameMap
  /\ \E at \in RenderSpots : player = [x |-> at[1], y |-> at[2]]
  /\ enemies \in {es \in RenderLineUps :
                     \A i \in 1 .. Len(es) : <<es[i].x, es[i].y>> # <<player.x, player.y>>}
  /\ manager = <<>> /\ gun = <<>>
  /\ frame = [NewFrame EXCEPT !.pc = "cast"]
  /\ start_x = 0 /\ start_y = 0 /\ goal_x = 0 /\ goal_y = 0
  /\ max_iterations = DEFAULT_MAX_ITERATIONS
  /\ astar = NewCall
  /\ last = Idle
  /\ steps = 0

SpecRender == InitRender /\ [][NextRender]_vars

\* --------------------------------------------------- properties of the game
\* The step just taken was EnemyManager.update.
ManagerUpdated == last.op = "manager"

\* The ids of a list of enemies, and of the members of all clusters.
Ids(es) == {es[i].id : i \in 1 .. Len(es)}
Members(patrol_clusters) ==
  UNION { {patrol_clusters[c].enemies[k] : k \in 1 .. Len(patrol_clusters[c].enemies)} :
          c \in 1 .. Len(patrol_clusters) }

\* The enemies the update took off the list, and those whose hp it brought
\* to zero or below: each hit costs 1 hp.
RemovedIds == Ids(last.before) \ Ids(enemies)
HitsOf(id) == Cardinality({k \in 1 .. Len(last.hits) : last.hits[k] = id})
DeadIds ==
  {last.before[i].id : i \in {j \in 1 .. Len(last.before) :
                                last.before[j].hp - HitsOf(last.before[j].id) <= 0}}

\* C16: every enemy of the list has hp > 0, and after every
\* EnemyManager.update the enemies whose hp reached zero or below in it are
\* exactly those it removed from the list, none of them is left in a
\* cluster's member list, and the score rose by 100 for each of them.
C16_DeadRemovedAndScoredOnce ==
  /\ \A i \in 1 .. Len(enemies) : enemies[i].hp > 0
  /\ ManagerUpdated =>
       /\ RemovedIds = DeadIds
       /\ RemovedIds \cap Members(manager.patrol_clusters) = {}
       /\ player.score = last.player.score + 100 * Cardinality(RemovedIds)

\* An update in which the shot killed an enemy that was a member of a
\* cluster.
C16_Witness ==
  /\ ManagerUpdated
  /\ RemovedIds # {}
  /\ RemovedIds \subseteq Members(last.patrol_clusters)
  /\ player.score = last.player.score + 100

\* The frame's sprites are drawn: RenderEnemies was the step just taken.
Rendered == last.op = "sprites"

\* The ray a screen column belongs to: the rays' strips are WALL_STRIP_WIDTH
\* columns wide and lie side by side from column 0 (line 2024).
RayOfColumn(x) == x \div WALL_STRIP_WIDTH

\* The sprite at squared distance d2 is strictly nearer than, or strictly
\* farther than, the depth z in tiles: z is infinite, MAX_DEPTH, or
\* (n / TILE_SIZE) * (l / v).
Nearer(d2, z) ==
  \/ z.kind = "inf"
  \/ z.kind = "max" /\ d2 < MAX_DEPTH * MAX_DEPTH * TILE_SIZE * TILE_SIZE
  \/ z.kind = "wall" /\ z.n * z.v > 0 /\ d2 * (z.v * z.v) < (z.n * z.n) * z.l2
Farther(d2, z) ==
  \/ z.kind = "max" /\ d2 > MAX_DEPTH * MAX_DEPTH * TILE_SIZE * TILE_SIZE
  \/ z.kind = "wall" /\ (z.n * z.v <= 0 \/ d2 * (z.v * z.v) > (z.n * z.n) * z.l2)

\* C19: a sprite puts pixels in a screen column only if its distance is
\* strictly less than the depth-buffer entry of the column's ray; a sprite
\* farther than a ray's entry puts no pixel in any column of that ray; and
\* every column a sprite covers maps to a ray index in 0 .. RAY_COUNT - 1.
C19_SpritePixelsOnlyInFrontOfWalls ==
  Rendered =>
    \A k \in 1 .. Len(frame.sprites) :
      LET s == frame.sprites[k]
      IN /\ \A x \in s.columns.pixels :
              /\ RayOfColumn(x) \in 0 .. RAY_COUNT - 1
              /\ Nearer(s.sprite.sprite_dist2, frame.z_buffer[RayOfColumn(x)])
         /\ \A ray \in 0 .. RAY_COUNT - 1 :
              Farther(s.sprite.sprite_dist2, frame.z_buffer[ray])
                => \A x \in s.columns.pixels : RayOfColumn(x) # ray
         /\ \A t \in s.columns.tested :
              t.ray_idx = RayOfColumn(t.x) /\ t.ray_idx \in 0 .. RAY_COUNT - 1

\* A frame with a sprite that covers columns of two rays, hidden behind the
\* wall of one and drawn in front of the wall of the other.
C19_Witness ==
  /\ Rendered
  /\ \E k \in 1 .. Len(frame.sprites) :
       LET s == frame.sprites[k]
       IN /\ s.sprite.kind = "drawn"
          /\ s.columns.pixels # {}
          /\ \E t \in s.columns.tested :
               /\ t.x \notin s.columns.pixels
               /\ Farther(s.sprite.sprite_dist2, frame.z_buffer[t.ray_idx])

\* Once cast_rays is entered, nothing updates the enemies or the player
\* until the frame is shown.
NoUpdateWhileRendering ==
  frame.pc \in {"cast", "rays", "sprites", "present"} =>
    UNCHANGED <<enemies, player>>

\* The steps of a frame follow each other in main's order: the manager's
\* update straight after the input, cast_rays straight after the whole
\* update, the rays 0 to RAY_COUNT - 1 in turn, the sprites after the last
\* ray, the flip after the sprites.
InFrameOrder ==
  /\ last'.op = "manager" => last.op = "input"
  /\ last'.op = "cast" => last.op = "manager"
  /\ last'.op = "ray" => \/ last.op = "cast" /\ last'.ray = 0
                         \/ last.op = "ray" /\ last'.ray = last.ray + 1
  /\ last'.op = "sprites" => last.op = "ray" /\ last.ray = RAY_COUNT - 1
  /\ last'.op = "present" => last.op = "sprites"

\* The z_buffer the sprites were tested against had an entry written by
\* every ray: none is the float('inf') cast_rays starts from.
DepthBufferWritten ==
  Rendered =>
    /\ DOMAIN last.z_buffer = 0 .. RAY_COUNT - 1
    /\ \A ray \in 0 .. RAY_COUNT - 1 : last.z_buffer[ray].kind # "inf"

\* The frame about to be shown holds one sprite for each enemy of the list,
\* projected from where the enemy is.
SpritesFromFinalPositions ==
  frame.pc = "present" =>
    /\ {frame.sprites[k].who : k \in 1 .. Len(frame.sprites)} = 1 .. Len(enemies)
    /\ \A k \in 1 .. Len(frame.sprites) :
         /\ frame.sprites[k].x = enemies[frame.sprites[k].who].x
         /\ frame.sprites[k].y = enemies[frame.sprites[k].who].y
         /\ frame.sprites[k].sprite.sprite_dist2
              = Dist2(enemies[frame.sprites[k].who].x, enemies[frame.sprites[k].who].y,
                      player.x, player.y)

\* C20: in every PLAYING frame the enemies' updates are complete before
\* cast_rays starts and nothing updates them until the frame is shown, every
\* ray has written its z_buffer entry before a sprite is tested against the
\* buffer, and the sprites of the frame shown are projected from the
\* positions the update left the enemies in.
C20_FramePipelineInOrder ==
  /\ [](DepthBufferWritten /\ SpritesFromFinalPositions)
  /\ [][NoUpdateWhileRendering /\ InFrameOrder]_vars

\* A frame about to be shown in which an enemy that the frame's update moved
\* has put pixels on the screen.
C20_Witness ==
  /\ frame.pc = "present" /\ frame.game_state = "PLAYING"
  /\ \E k \in 1 .. Len(frame.sprites) :
       /\ frame.sprites[k].columns.pixels # {}
       /\ \E j \in 1 .. Len(frame.began) :
            /\ frame.began[j].id = enemies[frame.sprites[k].who].id
            /\ <<frame.began[j].x, frame.began[j].y>>
                 # <<frame.sprites[k].x, frame.sprites[k].y>>

\* ---------------------------------------- properties of the search, again
\* C21: during one call no cell is expanded twice: the cells added to
\* closed_set, in the order the loop added them, are all different.
C21_EachCellExpandedOnce ==
  \A i, j \in 1 .. Len(astar.expanded) :
     i # j => astar.expanded[i] # astar.expanded[j]

\* One step of a call that is at its while test: with nothing left to pop or
\* the budget used up it returns the empty path without a pop; popping a node
\* of the goal cell returns a path; any other pop goes on searching.
PopOrGiveUp ==
  astar.pc = "loop" =>
    LET more == astar.open_list # <<>> /\ astar.iterations < max_iterations
        at_goal == /\ more
                   /\ astar.nodes[astar.open_list[1]].x = GoalCell[1]
                   /\ astar.nodes[astar.open_list[1]].y = GoalCell[2]
    IN /\ ~more =>
            /\ astar'.pc = "done" /\ astar'.path = <<>>
            /\ astar'.iterations = astar.iterations
       /\ at_goal =>
            /\ astar'.pc = "done" /\ astar'.path # <<>>
            /\ astar'.iterations = astar.iterations + 1
       /\ more /\ ~at_goal =>
            /\ astar'.pc = "loop" /\ astar'.path = <<>>
            /\ astar'.iterations = astar.iterations + 1

\* C22: every call returns, after at most max_iterations pops; it returns
\* the empty path when the open list is empty or the budget is used up
\* before a node of the goal cell is popped, and a path exactly when such a
\* node is popped.  Stated as: the pops never number more than
\* max_iterations, and every step at the while test either returns or is one
\* more pop, so that the call returns within max_iterations + 1 such steps.
C22_TerminatesWithinBudget ==
  /\ [](astar.iterations <= max_iterations)
  /\ [][PopOrGiveUp]_vars

\* A call that gave up with nodes still open: its budget was used up.
C22_Witness ==
  /\ Returned /\ astar.path = <<>>
  /\ astar.iterations = max_iterations /\ astar.open_list # <<>>

\* A move from cell c to the cell d next to it: d is a free cell of the grid
\* and, for a diagonal move, so are the two cells the move passes between.
Free(c) == InGrid(c) /\ ~IsWall(c)
MoveAllowed(c, d) ==
  /\ c # d /\ Abs(c[1] - d[1]) <= 1 /\ Abs(c[2] - d[2]) <= 1
  /\ Free(d)
  /\ (c[1] # d[1] /\ c[2] # d[2]) => Free(<<d[1], c[2]>>) /\ Free(<<c[1], d[2]>>)

\* The cells a route of such moves leads to from the cells of `seen`.
RECURSIVE ReachedFrom(_)
ReachedFrom(seen) ==
  LET more == {d \in CellsX \X CellsY : \E c \in seen : MoveAllowed(c, d)} \ seen
  IN IF more = {} THEN seen ELSE ReachedFrom(seen \cup more)

\* The goal cell can be walked to from the start cell.
RouteExists == Free(StartCell) /\ GoalCell \in ReachedFrom({StartCell})

\* C27: a call that returns with fewer than max_iterations pops made returns
\* a path if a route of allowed moves leads from the start cell to the goal
\* cell: an empty path with budget left means there is no route.
C27_CompleteWithinBudget ==
  (Returned /\ astar.iterations < max_iterations /\ RouteExists) =>
    astar.path # <<>>

\* A search between two free cells that ran until nothing was left to pop,
\* with budget left, and returned the empty path.
C27_Witness ==
  /\ Returned /\ astar.created /\ astar.path = <<>>
  /\ astar.iterations < max_iterations /\ astar.iterations > 1
  /\ astar.open_list = <<>>
  /\ ~RouteExists
\* ---------------------------------------- properties of the enemies, again
\* The path the update began with has no waypoint left for the cursor.
PathSpent(e) == e.path = <<>> \/ e.current_path_index >= Len(e.path)

\* C23: an update asks the pathfinder only if PATH_UPDATE_FREQUENCY updates
\* have been counted since the last re-plan or the path is empty or its
\* cursor past the last waypoint; it re-plans whenever the path is empty or
\* the cursor is past the last waypoint; and with waypoints left it does not
\* re-plan on the update after a re-plan.
C23_ReplanWhenDueOrPathSpent ==
  Acted =>
    /\ last.called =>
         \/ Before.path_update_counter + 1 >= PATH_UPDATE_FREQUENCY
         \/ PathSpent(Before)
    /\ PathSpent(Before) => last.should_update_path
    /\ ~PathSpent(Before) /\ Before.path_update_counter = 0 =>
         ~last.should_update_path

\* C24: a hit leaves the enemy with hit_effect = 5, and an update of an enemy
\* whose hit_effect is above 0 counts it down by one and does nothing else:
\* position, state, timer, last_player_pos, path, cursor, cooldown and every
\* other field are as they were, and no attack is reported.
C24_HitStunSuppressesUpdate ==
  /\ last.op = "hit" /\ ~last.enemy_killed => Self.hit_effect = 5
  /\ Updated /\ Before.hit_effect > 0 =>
       /\ Self = [Before EXCEPT !.hit_effect = @ - 1]
       /\ enemies = [last.before EXCEPT ![last.who] = Self]
       /\ ~last.attacking /\ ~last.called

\* A stunned enemy in ATTACK with the player in reach of its attack, its
\* cooldown run out and a waypoint ahead of it: it neither moves nor attacks.
C24_Witness ==
  /\ Updated /\ Before.hit_effect > 0
  /\ Before.state = "ATTACK" /\ Before.attack_cooldown = 0
  /\ 100 * Dist2(player.x, player.y, Before.x, Before.y)
       < (TILE_SIZE * TypeStats(Before.enemy_type).attack_range)
         * (TILE_SIZE * TypeStats(Before.enemy_type).attack_range)
  /\ Self.x = Before.x /\ Self.y = Before.y /\ ~last.attacking

\* Enemy e with the fields an alert sets blanked out.
BesidesAlertFields(e) ==
  [e EXCEPT !.state = "PATROL", !.state_timer = 0, !.last_player_pos = None]

\* C25: an update of one enemy leaves the list as long as it was and changes
\* of any other enemy nothing but state, state_timer and last_player_pos
\* (position, hp, path, cursor, patrol points, cooldowns stay); and it
\* changes those only when the updating enemy, on patrol, has just sighted the
\* player and alerts an ally that was on patrol.
C25_OthersOnlyAlerted ==
  Updated =>
    /\ Len(enemies) = Len(last.before)
    /\ \A j \in 1 .. Len(enemies) :
         j # last.who =>
           /\ BesidesAlertFields(enemies[j]) = BesidesAlertFields(last.before[j])
           /\ enemies[j] # last.before[j] =>
                /\ Acted /\ last.player_in_sight /\ Before.state = "PATROL"
                /\ last.before[j].state = "PATROL"
                /\ enemies[j].state = "ATTACK" /\ enemies[j].state_timer = 0
                /\ enemies[j].last_player_pos = <<player.x, player.y>>

\* An update that alerts an ally which has a path and a waypoint ahead.
C25_Witness ==
  /\ Updated
  /\ \E j \in 1 .. Len(enemies) :
       /\ j # last.who /\ enemies[j] # last.before[j]
       /\ enemies[j].path # <<>> /\ enemies[j].path = last.before[j].path
       /\ enemies[j].current_path_index < Len(enemies[j].path)

\* ----------------------------------------------- properties of the manager
\* The ids of the enemies the update put on the list.
SpawnedIds == Ids(enemies) \ Ids(last.before)

\* The enemies of the list that carry the id of cluster c.
CarryingId(c) ==
  {enemies[i].id : i \in {j \in 1 .. Len(enemies) :
                            /\ "cluster_id" \in DOMAIN enemies[j]
                            /\ enemies[j].cluster_id = manager.patrol_clusters[c].id}}

\* C26: the list never holds more than MAX_ENEMIES enemies, no cluster more
\* than MAX_CLUSTER_SIZE members, each cluster's member list holds exactly
\* the listed enemies that carry its id, each once; and an update spawns at
\* most one enemy, only when its countdown of the spawn cooldown reaches 0
\* or below, and then starts the cooldown again.
C26_SpawnLimits ==
  /\ Len(enemies) <= MAX_ENEMIES
  /\ Cardinality(Ids(enemies)) = Len(enemies)
  /\ \A c \in 1 .. Len(manager.patrol_clusters) :
       LET members == manager.patrol_clusters[c].enemies
       IN /\ Len(members) <= MAX_CLUSTER_SIZE
          /\ {members[k] : k \in 1 .. Len(members)} = CarryingId(c)
          /\ Cardinality(CarryingId(c)) = Len(members)
  /\ ManagerUpdated =>
       /\ Cardinality(SpawnedIds) <= 1
       /\ last.spawned <=> SpawnedIds # {}
       /\ last.spawned =>
            /\ last.spawn_cooldown - 1 <= 0
            /\ manager.spawn_cooldown = ENEMY_SPAWN_COOLDOWN

\* An update whose spawn cooldown has run out, with room on the list, that
\* spawns nothing because every cluster is full.
C26_Witness ==
  /\ ManagerUpdated /\ ~last.spawned
  /\ last.spawn_cooldown - 1 <= 0
  /\ Len(enemies) < MAX_ENEMIES
  /\ \A c \in 1 .. Len(manager.patrol_clusters) :
       Len(manager.patrol_clusters[c].enemies) = MAX_CLUSTER_SIZE

\* The round now in flight was fired in this frame: Gun.fire set the cooldown
\* to WEAPON_FIRE_COOLDOWN and the frame's Gun.update has counted it once.
FiredThisFrame == gun.firing /\ gun.cooldown = WEAPON_FIRE_COOLDOWN - 1

\* C28: one round damages an enemy at most once.  Stated for the frames after
\* the shot: an update damages no enemy twice, and an enemy that was damaged
\* in the update before (it began this one with the hit_effect = 5 that
\* take_damage left) is damaged again only by a round fired since.
C28_OneDamagePerShot ==
  ManagerUpdated =>
    \A i \in 1 .. Len(last.before) :
      /\ HitsOf(last.before[i].id) <= 1
      /\ (HitsOf(last.before[i].id) = 1 /\ last.before[i].hit_effect = 5) =>
           FiredThisFrame

\* How many updates of its own, each with the player in sight or spent in hit
\* stun, an enemy is from ATTACK at most: the stun counts down first; PATROL
\* and SEARCH go to ATTACK on one sighting; ALERT lasts until an update
\* counts state_timer past ALERT_DURATION, then SEARCH follows, then ATTACK.
UpdatesFromAttack(e) ==
  e.hit_effect +
    (CASE e.state = "ATTACK" -> 0
       [] e.state \in {"PATROL", "SEARCH"} -> 1
       [] e.state = "ALERT" -> Max(1, ALERT_DURATION + 1 - e.state_timer) + 1)

\* A step that is no hit and leaves the list as long as it was: an update of
\* enemy j that is stunned or sees the player brings j nearer to ATTACK, or
\* keeps it in ATTACK; any step that is not an update of j sets j no
\* further back.
TowardsAttack ==
  (last'.op # "hit" /\ Len(enemies') = Len(enemies)) =>
    \A j \in 1 .. Len(enemies) :
      IF last'.op = "update" /\ last'.who = j
      THEN (last'.stunned \/ last'.player_in_sight) =>
             IF UpdatesFromAttack(enemies[j]) = 0
             THEN UpdatesFromAttack(enemies'[j]) = 0
             ELSE UpdatesFromAttack(enemies'[j]) < UpdatesFromAttack(enemies[j])
      ELSE UpdatesFromAttack(enemies'[j]) <= UpdatesFromAttack(enemies[j])

\* C29: an enemy that from some update on sees the player on every update
\* and is not hit again is in ATTACK after finitely many updates and stays
\* there while it sees the player.  Stated as bounded progress: the count
\* UpdatesFromAttack, never above 5 + ALERT_DURATION + 2, falls on each such
\* update until it is 0 (in ATTACK, out of stun) and then stays 0, and no
\* other step but a hit raises it.
C29_SightLeadsToAttack ==
  /\ [](\A j \in 1 .. Len(enemies) :
          UpdatesFromAttack(enemies[j]) <= 5 + ALERT_DURATION + 2)
  /\ [][TowardsAttack]_vars

\* An enemy in ALERT that sees the player and has sat out the alert: the
\* update sends it to SEARCH, one update from ATTACK.
C29_Witness ==
  /\ Acted /\ last.player_in_sight
  /\ Before.state = "ALERT" /\ Self.state = "SEARCH"
  /\ UpdatesFromAttack(Self) = 1

\* Where the cursor of the updated enemy stood when _move was reached: at 0
\* after a re-plan, where it was before otherwise.
CursorAtMove ==
  IF Acted /\ last.should_update_path THEN 0 ELSE Before.current_path_index

\* The updated enemy stood within half a tile of the waypoint at cursor k.
WithinHalfTile(k) ==
  /\ k < Len(Self.path)
  /\ 4 * Dist2(Self.path[k + 1][1], Self.path[k + 1][2], Before.x, Before.y)
       < TILE_SIZE * TILE_SIZE

====
